---------------------------- MODULE Spec2Model ----------------------------
(***************************************************************************)
(* Model of the generic FIFO queue of lib/queue/queue.c: one queue_t       *)
(* control structure, the caller-owned backing buffers it can be bound to, *)
(* the caller's output object, and the five public operations.             *)
(*                                                                         *)
(* C indices are 0-based; byte arrays are TLA+ sequences, so C index i is  *)
(* sequence index i + 1.                                                   *)
(***************************************************************************)
EXTENDS Integers, Sequences, FiniteSets, TLC

(***************************************************************************)
(* Bounds of the model.                                                    *)
(***************************************************************************)
MaxCap == 2
MaxElemSize == 2
MaxByte == 1
MaxInits == 2

(***************************************************************************)
(* queue_status_t                                                          *)
(***************************************************************************)
QUEUE_OK == 0
QUEUE_FULL == 1
QUEUE_EMPTY == 2
QUEUE_ERROR == 3

(***************************************************************************)
(* The (uint16_t) cast of a uint32_t expression.  The operands of every    *)
(* uint32_t expression of queue.c are uint16_t values, so tail + 1,        *)
(* count + 1 and index * size are below 2^32 and are computed exactly;     *)
(* count - 1 wraps modulo 2^32, and its reduction modulo 2^16 is the       *)
(* reduction of the exact difference (2^16 divides 2^32).                  *)
(***************************************************************************)
Mod16 == 65536
U16(x) == x % Mod16
UINT16_MAX == Mod16 - 1

Bytes == 0..MaxByte
NULL == 0
Buffers == {1, 2}
BufLen == MaxCap * MaxElemSize

(***************************************************************************)
(* A byte pointer: either null, or a view of the bytes from the pointed-to *)
(* address onwards.                                                        *)
(***************************************************************************)
NullPtr == [null |-> TRUE, bytes |-> <<>>]
Ptr(b) == [null |-> FALSE, bytes |-> b]

VARIABLES
    q,          \* the queue_t control structure
    mem,        \* mem[b]: the bytes of caller buffer b
    out_item,   \* the caller's object that queue_pop writes to
    call,       \* the last API call: the operation, which references were null, the item
    ret,        \* what the last call returned: a queue_status_t, or a bool
    fifo,       \* the abstract queue: the items accepted and not yet delivered, oldest first
    run,        \* the fill-then-drain run in progress, if any
    inits,      \* number of queue_init calls that returned QUEUE_OK
    old,        \* q, mem, out_item and fifo as they were before the last call
    init_args,  \* the arguments of the last call, if it was a queue_init (SpecInit)
    net,        \* pushes minus pops that returned QUEUE_OK since the last successful init
    since,      \* what the caller has done since the last successful init (SpecBind)
    script,     \* position of the caller in the capacity-3 scenario (SpecScenario)
    peer,       \* a second queue_t, bound to a buffer of its own (SpecTwo)
    task,       \* the call in progress, statement by statement (SpecSteps, SpecIsr)
    streak,     \* the run of consecutive pushes, or pops, in progress (SpecStreak)
    wide,       \* what the last call computed, in a queue of any geometry (SpecWide)
    copy        \* the call of copy_bytes in progress, or made last (SpecZero, SpecCopy)

vars == <<q, mem, out_item, call, ret, fifo, run, inits, old, init_args,
          net, since, script, peer, task, streak, wide, copy>>

others == <<since, script, peer, task, streak, wide, copy>>

(***************************************************************************)
(* copy_bytes: the result is dst after the call.  The loop index is a      *)
(* uint16_t.                                                               *)
(***************************************************************************)
RECURSIVE copy_loop(_, _, _, _)
copy_loop(dst, src, size, i) ==
    IF i < size
    THEN copy_loop([dst EXCEPT ![i + 1] = src[i + 1]], src, size, U16(i + 1))
    ELSE dst

(***************************************************************************)
(* Faulty variant: the bytes are copied two at a time, an odd last byte is *)
(* left out.                                                               *)
(***************************************************************************)
copy_bytes_by_words(dst, src, size) ==
    IF (~dst.null) /\ (~src.null)
    THEN copy_loop(dst.bytes, src.bytes, size - (size % 2), 0)
    ELSE dst.bytes

copy_bytes(dst, src, size) ==
    IF (~dst.null) /\ (~src.null)
    THEN copy_loop(dst.bytes, src.bytes, size, 0)
    ELSE dst.bytes

(***************************************************************************)
(* &base[offset]: the view of buffer bytes b from C offset off onwards,    *)
(* and the buffer with such a view written back.                           *)
(***************************************************************************)
ViewFrom(b, off) == SubSeq(b, off + 1, Len(b))
WithView(b, off, v) == SubSeq(b, 1, off) \o v

(***************************************************************************)
(* Faulty variant: the capacity is not validated.                          *)
(***************************************************************************)
validate_init_arg_no_capacity(q_null, buffer, buffer_element_size, queue_capacity) ==
    (q_null) \/ (buffer = NULL) \/ (buffer_element_size = 0)

validate_init_arg(q_null, buffer, buffer_element_size, queue_capacity) ==
    (q_null) \/ (buffer = NULL) \/ (buffer_element_size = 0) \/ (queue_capacity = 0)

(***************************************************************************)
(* The public operations as functions of the state they are given:         *)
(* each yields the returned status and the state after the call.           *)
(***************************************************************************)
(***************************************************************************)
(* Faulty variant: the indices are reset before the arguments are checked. *)
(***************************************************************************)
queue_init_reset_first(q_null, qs, buffer, buffer_element_size, queue_capacity) ==
    IF q_null
    THEN [ret |-> QUEUE_ERROR, q |-> qs]
    ELSE IF validate_init_arg(q_null, buffer, buffer_element_size, queue_capacity)
    THEN [ret |-> QUEUE_ERROR, q |-> [qs EXCEPT !.head = 0, !.tail = 0, !.count = 0]]
    ELSE [ret |-> QUEUE_OK,
          q |-> [buffer |-> buffer,
                 buffer_element_size |-> buffer_element_size,
                 capacity |-> queue_capacity,
                 head |-> 0, tail |-> 0, count |-> 0]]

(***************************************************************************)
(* Faulty variants: the capacity field is 8 bits wide; count is not reset; *)
(* the binding is stored before the arguments are checked.                 *)
(***************************************************************************)
queue_init_bind_first(q_null, qs, buffer, buffer_element_size, queue_capacity) ==
    IF q_null
    THEN [ret |-> QUEUE_ERROR, q |-> qs]
    ELSE IF validate_init_arg(q_null, buffer, buffer_element_size, queue_capacity)
    THEN [ret |-> QUEUE_ERROR,
          q |-> [qs EXCEPT !.buffer = buffer,
                           !.buffer_element_size = buffer_element_size,
                           !.capacity = queue_capacity]]
    ELSE [ret |-> QUEUE_OK,
          q |-> [buffer |-> buffer,
                 buffer_element_size |-> buffer_element_size,
                 capacity |-> queue_capacity,
                 head |-> 0, tail |-> 0, count |-> 0]]

queue_init_narrow(q_null, qs, buffer, buffer_element_size, queue_capacity) ==
    IF validate_init_arg(q_null, buffer, buffer_element_size, queue_capacity)
    THEN [ret |-> QUEUE_ERROR, q |-> qs]
    ELSE [ret |-> QUEUE_OK,
          q |-> [buffer |-> buffer,
                 buffer_element_size |-> buffer_element_size,
                 capacity |-> queue_capacity % 256,
                 head |-> 0, tail |-> 0, count |-> 0]]

queue_init_keep_count(q_null, qs, buffer, buffer_element_size, queue_capacity) ==
    IF validate_init_arg(q_null, buffer, buffer_element_size, queue_capacity)
    THEN [ret |-> QUEUE_ERROR, q |-> qs]
    ELSE [ret |-> QUEUE_OK,
          q |-> [buffer |-> buffer,
                 buffer_element_size |-> buffer_element_size,
                 capacity |-> queue_capacity,
                 head |-> 0, tail |-> 0, count |-> qs.count]]

queue_init(q_null, qs, buffer, buffer_element_size, queue_capacity) ==
    IF validate_init_arg(q_null, buffer, buffer_element_size, queue_capacity)
    THEN [ret |-> QUEUE_ERROR, q |-> qs]
    ELSE [ret |-> QUEUE_OK,
          q |-> [buffer |-> buffer,
                 buffer_element_size |-> buffer_element_size,
                 capacity |-> queue_capacity,
                 head |-> 0, tail |-> 0, count |-> 0]]

(***************************************************************************)
(* &base[offset] for a base that may be null.                              *)
(***************************************************************************)
SlotPtr(qs, m, offset) ==
    IF qs.buffer = NULL THEN NullPtr ELSE Ptr(ViewFrom(m[qs.buffer], offset))

(***************************************************************************)
(* Faulty variants of queue_push: the full check is count > capacity; the  *)
(* item is copied before the full check; the full check precedes the null  *)
(* check.                                                                  *)
(***************************************************************************)
queue_push_off_by_one(q_null, qs, m, item) ==
    IF q_null \/ item.null
    THEN [ret |-> QUEUE_ERROR, q |-> qs, mem |-> m]
    ELSE IF qs.count > qs.capacity \/ qs.capacity = 0
    THEN [ret |-> QUEUE_FULL, q |-> qs, mem |-> m]
    ELSE LET base == m[qs.buffer]
             offset == qs.tail * qs.buffer_element_size
             written == copy_bytes(Ptr(ViewFrom(base, offset)), item, qs.buffer_element_size)
         IN [ret |-> QUEUE_OK,
             q |-> [qs EXCEPT !.tail = U16((qs.tail + 1) % qs.capacity),
                              !.count = U16(qs.count + 1)],
             mem |-> [m EXCEPT ![qs.buffer] = WithView(base, offset, written)]]

queue_push_copy_first(q_null, qs, m, item) ==
    IF q_null \/ item.null
    THEN [ret |-> QUEUE_ERROR, q |-> qs, mem |-> m]
    ELSE LET offset == qs.tail * qs.buffer_element_size
             dst == SlotPtr(qs, m, offset)
             written == copy_bytes(dst, item, qs.buffer_element_size)
             m2 == IF dst.null THEN m
                   ELSE [m EXCEPT ![qs.buffer] = WithView(m[qs.buffer], offset, written)]
         IN IF qs.count >= qs.capacity
            THEN [ret |-> QUEUE_FULL, q |-> qs, mem |-> m2]
            ELSE [ret |-> QUEUE_OK,
                  q |-> [qs EXCEPT !.tail = U16((qs.tail + 1) % qs.capacity),
                                   !.count = U16(qs.count + 1)],
                  mem |-> m2]

queue_push_full_first(q_null, qs, m, item) ==
    IF (~q_null) /\ qs.count >= qs.capacity
    THEN [ret |-> QUEUE_FULL, q |-> qs, mem |-> m]
    ELSE IF q_null \/ item.null
    THEN [ret |-> QUEUE_ERROR, q |-> qs, mem |-> m]
    ELSE LET base == m[qs.buffer]
             offset == qs.tail * qs.buffer_element_size
             written == copy_bytes(Ptr(ViewFrom(base, offset)), item, qs.buffer_element_size)
         IN [ret |-> QUEUE_OK,
             q |-> [qs EXCEPT !.tail = U16((qs.tail + 1) % qs.capacity),
                              !.count = U16(qs.count + 1)],
             mem |-> [m EXCEPT ![qs.buffer] = WithView(base, offset, written)]]

(***************************************************************************)
(* Faulty variants of queue_push: tail is not wrapped at capacity; the     *)
(* buffer is zeroed behind the slot written; the item is written to the    *)
(* slot at head; a push on a full queue counts.                            *)
(***************************************************************************)
queue_push_no_wrap(q_null, qs, m, item) ==
    IF q_null \/ item.null
    THEN [ret |-> QUEUE_ERROR, q |-> qs, mem |-> m]
    ELSE IF qs.count >= qs.capacity
    THEN [ret |-> QUEUE_FULL, q |-> qs, mem |-> m]
    ELSE LET base == m[qs.buffer]
             offset == qs.tail * qs.buffer_element_size
             written == copy_bytes(Ptr(ViewFrom(base, offset)), item, qs.buffer_element_size)
         IN [ret |-> QUEUE_OK,
             q |-> [qs EXCEPT !.tail = U16(qs.tail + 1),
                              !.count = U16(qs.count + 1)],
             mem |-> [m EXCEPT ![qs.buffer] = WithView(base, offset, written)]]

queue_push_pads(q_null, qs, m, item) ==
    IF q_null \/ item.null
    THEN [ret |-> QUEUE_ERROR, q |-> qs, mem |-> m]
    ELSE IF qs.count >= qs.capacity
    THEN [ret |-> QUEUE_FULL, q |-> qs, mem |-> m]
    ELSE LET base == m[qs.buffer]
             offset == qs.tail * qs.buffer_element_size
             written == copy_bytes(Ptr(ViewFrom(base, offset)), item, qs.buffer_element_size)
             padded == [k \in 1..Len(written) |->
                          IF k <= qs.buffer_element_size THEN written[k] ELSE 0]
         IN [ret |-> QUEUE_OK,
             q |-> [qs EXCEPT !.tail = U16((qs.tail + 1) % qs.capacity),
                              !.count = U16(qs.count + 1)],
             mem |-> [m EXCEPT ![qs.buffer] = WithView(base, offset, padded)]]

queue_push_at_head(q_null, qs, m, item) ==
    IF q_null \/ item.null
    THEN [ret |-> QUEUE_ERROR, q |-> qs, mem |-> m]
    ELSE IF qs.count >= qs.capacity
    THEN [ret |-> QUEUE_FULL, q |-> qs, mem |-> m]
    ELSE LET base == m[qs.buffer]
             offset == qs.head * qs.buffer_element_size
             written == copy_bytes(Ptr(ViewFrom(base, offset)), item, qs.buffer_element_size)
         IN [ret |-> QUEUE_OK,
             q |-> [qs EXCEPT !.tail = U16((qs.tail + 1) % qs.capacity),
                              !.count = U16(qs.count + 1)],
             mem |-> [m EXCEPT ![qs.buffer] = WithView(base, offset, written)]]

queue_push_full_counts(q_null, qs, m, item) ==
    IF q_null \/ item.null
    THEN [ret |-> QUEUE_ERROR, q |-> qs, mem |-> m]
    ELSE IF qs.count >= qs.capacity
    THEN [ret |-> QUEUE_FULL, q |-> [qs EXCEPT !.count = U16(qs.count + 1)], mem |-> m]
    ELSE LET base == m[qs.buffer]
             offset == qs.tail * qs.buffer_element_size
             written == copy_bytes(Ptr(ViewFrom(base, offset)), item, qs.buffer_element_size)
         IN [ret |-> QUEUE_OK,
             q |-> [qs EXCEPT !.tail = U16((qs.tail + 1) % qs.capacity),
                              !.count = U16(qs.count + 1)],
             mem |-> [m EXCEPT ![qs.buffer] = WithView(base, offset, written)]]

(***************************************************************************)
(* Faulty variant: the elements are kept in one buffer shared by all       *)
(* queues.                                                                 *)
(***************************************************************************)
queue_push_shared_buffer(q_null, qs, m, item) ==
    IF q_null \/ item.null
    THEN [ret |-> QUEUE_ERROR, q |-> qs, mem |-> m]
    ELSE IF qs.count >= qs.capacity
    THEN [ret |-> QUEUE_FULL, q |-> qs, mem |-> m]
    ELSE LET base == m[1]
             offset == qs.tail * qs.buffer_element_size
             written == copy_bytes(Ptr(ViewFrom(base, offset)), item, qs.buffer_element_size)
         IN [ret |-> QUEUE_OK,
             q |-> [qs EXCEPT !.tail = U16((qs.tail + 1) % qs.capacity),
                              !.count = U16(qs.count + 1)],
             mem |-> [m EXCEPT ![1] = WithView(base, offset, written)]]

queue_push(q_null, qs, m, item) ==
    IF q_null \/ item.null
    THEN [ret |-> QUEUE_ERROR, q |-> qs, mem |-> m]
    ELSE IF qs.count >= qs.capacity
    THEN [ret |-> QUEUE_FULL, q |-> qs, mem |-> m]
    ELSE LET base == m[qs.buffer]
             offset == qs.tail * qs.buffer_element_size
             written == copy_bytes(Ptr(ViewFrom(base, offset)), item, qs.buffer_element_size)
         IN [ret |-> QUEUE_OK,
             q |-> [qs EXCEPT !.tail = U16((qs.tail + 1) % qs.capacity),
                              !.count = U16(qs.count + 1)],
             mem |-> [m EXCEPT ![qs.buffer] = WithView(base, offset, written)]]

(***************************************************************************)
(* Faulty variants of queue_pop: the newest element is read instead of the *)
(* oldest; the empty branch reports QUEUE_OK; the slot at head is copied   *)
(* before the empty check.                                                 *)
(***************************************************************************)
queue_pop_newest(q_null, qs, m, item) ==
    IF q_null \/ item.null
    THEN [ret |-> QUEUE_ERROR, q |-> qs, item |-> item.bytes]
    ELSE IF qs.count = 0
    THEN [ret |-> QUEUE_EMPTY, q |-> qs, item |-> item.bytes]
    ELSE LET base == m[qs.buffer]
             last == (qs.tail + qs.capacity - 1) % qs.capacity
             offset == last * qs.buffer_element_size
         IN [ret |-> QUEUE_OK,
             q |-> [qs EXCEPT !.tail = last,
                              !.count = U16(qs.count - 1)],
             item |-> copy_bytes(item, Ptr(ViewFrom(base, offset)), qs.buffer_element_size)]

\* Faulty variant: head is not advanced.
queue_pop_no_advance(q_null, qs, m, item) ==
    IF q_null \/ item.null
    THEN [ret |-> QUEUE_ERROR, q |-> qs, item |-> item.bytes]
    ELSE IF qs.count = 0
    THEN [ret |-> QUEUE_EMPTY, q |-> qs, item |-> item.bytes]
    ELSE LET base == m[qs.buffer]
             offset == qs.head * qs.buffer_element_size
         IN [ret |-> QUEUE_OK,
             q |-> [qs EXCEPT !.count = U16(qs.count - 1)],
             item |-> copy_bytes(item, Ptr(ViewFrom(base, offset)), qs.buffer_element_size)]

queue_pop_empty_ok(q_null, qs, m, item) ==
    IF q_null \/ item.null
    THEN [ret |-> QUEUE_ERROR, q |-> qs, item |-> item.bytes]
    ELSE IF qs.count = 0
    THEN [ret |-> QUEUE_OK, q |-> qs, item |-> item.bytes]
    ELSE LET base == m[qs.buffer]
             offset == qs.head * qs.buffer_element_size
         IN [ret |-> QUEUE_OK,
             q |-> [qs EXCEPT !.head = U16((qs.head + 1) % qs.capacity),
                              !.count = U16(qs.count - 1)],
             item |-> copy_bytes(item, Ptr(ViewFrom(base, offset)), qs.buffer_element_size)]

queue_pop_copy_first(q_null, qs, m, item) ==
    IF q_null \/ item.null
    THEN [ret |-> QUEUE_ERROR, q |-> qs, item |-> item.bytes]
    ELSE LET offset == qs.head * qs.buffer_element_size
             copied == copy_bytes(item, SlotPtr(qs, m, offset), qs.buffer_element_size)
         IN IF qs.count = 0
            THEN [ret |-> QUEUE_EMPTY, q |-> qs, item |-> copied]
            ELSE [ret |-> QUEUE_OK,
                  q |-> [qs EXCEPT !.head = U16((qs.head + 1) % qs.capacity),
                                   !.count = U16(qs.count - 1)],
                  item |-> copied]

queue_pop(q_null, qs, m, item) ==
    IF q_null \/ item.null
    THEN [ret |-> QUEUE_ERROR, q |-> qs, item |-> item.bytes]
    ELSE IF qs.count = 0
    THEN [ret |-> QUEUE_EMPTY, q |-> qs, item |-> item.bytes]
    ELSE LET base == m[qs.buffer]
             offset == qs.head * qs.buffer_element_size
         IN [ret |-> QUEUE_OK,
             q |-> [qs EXCEPT !.head = U16((qs.head + 1) % qs.capacity),
                              !.count = U16(qs.count - 1)],
             item |-> copy_bytes(item, Ptr(ViewFrom(base, offset)), qs.buffer_element_size)]

(***************************************************************************)
(* Faulty variants of the queries: emptiness is judged by head = tail; the *)
(* queue reference is not checked.                                         *)
(***************************************************************************)
queue_is_empty_head_is_tail(q_null, qs) == IF ~q_null THEN qs.head = qs.tail ELSE TRUE

queue_is_full_unchecked(q_null, qs) == qs.count = qs.capacity

queue_is_empty(q_null, qs) == IF ~q_null THEN qs.count = 0 ELSE TRUE

queue_is_full(q_null, qs) == IF ~q_null THEN qs.count = qs.capacity ELSE FALSE

(***************************************************************************)
(* What the ring holds, oldest first: the count slots from head onwards.   *)
(***************************************************************************)
Slot(qs, m, idx) ==
    SubSeq(m[qs.buffer], idx * qs.buffer_element_size + 1,
           (idx + 1) * qs.buffer_element_size)

Contents(qs, m) ==
    [k \in 1..qs.count |-> Slot(qs, m, (qs.head + k - 1) % qs.capacity)]

(***************************************************************************)
(* Initial state: a statically allocated (all-zero) queue_t, buffers and   *)
(* output object, before any call.                                         *)
(***************************************************************************)
ZeroQueue ==
    [buffer |-> NULL, buffer_element_size |-> 0, capacity |-> 0,
     head |-> 0, tail |-> 0, count |-> 0]

Called(op, q_null, arg_null, item) ==
    [op |-> op, q_null |-> q_null, arg_null |-> arg_null, item |-> item]

NoRun == [phase |-> "off", pushed |-> <<>>, npop |-> 0, ok |-> TRUE]

NoArgs == [q_null |-> FALSE, buffer |-> NULL, size |-> 0, capacity |-> 0]

NoSince == [pushes |-> -1, pop |-> FALSE, lost |-> 0]

NoStreak == [op |-> "none", start |-> 0, n |-> 0]

NoWide == [phase |-> "off", pushes |-> 0, index |-> 0, offset |-> <<0, 0>>, from |-> -1]

NoCopy ==
    [pc |-> "off", dst_null |-> FALSE, src_null |-> FALSE, dst |-> <<>>, src |-> <<>>,
     was |-> <<>>, size |-> 0, i |-> 0, iters |-> 0, top |-> -1, reads |-> 0, writes |-> 0]

NoPeer ==
    [q |-> ZeroQueue, fifo |-> <<>>,
     was |-> [q |-> ZeroQueue, fifo |-> <<>>], last |-> FALSE]

Idle ==
    [pc |-> "idle", op |-> "none", item |-> <<>>, offset |-> 0, size |-> 0, i |-> 0,
     reg |-> 0, copies |-> 0, steps |-> 0, addr |-> -1, hit |-> FALSE, lost |-> FALSE,
     want |-> <<>>, agree |-> TRUE]

ZeroMem == [b \in Buffers |-> [i \in 1..BufLen |-> 0]]

ZeroItem == [i \in 1..MaxElemSize |-> 0]

Init ==
    /\ q = ZeroQueue
    /\ mem = ZeroMem
    /\ out_item = ZeroItem
    /\ call = Called("none", FALSE, FALSE, <<>>)
    /\ ret = QUEUE_OK
    /\ fifo = <<>>
    /\ run = NoRun
    /\ inits = 0
    /\ old = [q |-> ZeroQueue, mem |-> ZeroMem, out_item |-> ZeroItem, fifo |-> <<>>]
    /\ init_args = NoArgs
    /\ net = 0
    /\ since = NoSince
    /\ script = 0
    /\ peer = NoPeer
    /\ task = Idle
    /\ streak = NoStreak
    /\ wide = NoWide
    /\ copy = NoCopy

(***************************************************************************)
(* The items a caller pushes: element_size bytes, adjacent bytes differing *)
(* when MaxByte > 0.                                                       *)
(***************************************************************************)
Items(n) == {[i \in 1..n |-> (v + i) % (MaxByte + 1)] : v \in Bytes}

(***************************************************************************)
(* The API calls.  A null queue reference is q_null; a null buffer is      *)
(* buffer = NULL; a null item reference is arg_null.                       *)
(***************************************************************************)
DoInit(q_null, buffer, size, capacity) ==
    LET r == queue_init(q_null, q, buffer, size, capacity)
    IN /\ (r.ret = QUEUE_OK) => (inits < MaxInits)
       /\ q' = r.q
       /\ ret' = r.ret
       /\ call' = Called("init", q_null, buffer = NULL, <<>>)
       /\ UNCHANGED <<mem, out_item>>

DoPush(q_null, arg_null, item) ==
    LET r == queue_push(q_null, q, mem, IF arg_null THEN NullPtr ELSE Ptr(item))
    IN /\ q' = r.q
       /\ mem' = r.mem
       /\ ret' = r.ret
       /\ call' = Called("push", q_null, arg_null, item)
       /\ UNCHANGED out_item

DoPop(q_null, arg_null) ==
    LET r == queue_pop(q_null, q, mem, IF arg_null THEN NullPtr ELSE Ptr(out_item))
    IN /\ q' = r.q
       /\ ret' = r.ret
       /\ out_item' = IF arg_null THEN out_item ELSE r.item
       /\ call' = Called("pop", q_null, arg_null, <<>>)
       /\ UNCHANGED mem

DoIsEmpty(q_null) ==
    /\ ret' = queue_is_empty(q_null, q)
    /\ call' = Called("is_empty", q_null, FALSE, <<>>)
    /\ UNCHANGED <<q, mem, out_item>>

DoIsFull(q_null) ==
    /\ ret' = queue_is_full(q_null, q)
    /\ call' = Called("is_full", q_null, FALSE, <<>>)
    /\ UNCHANGED <<q, mem, out_item>>

(***************************************************************************)
(* History variables, updated from what the call just made returned.       *)
(*                                                                         *)
(* fifo is the bounded sequence the ring is meant to implement: an init    *)
(* that succeeds empties it, a push that succeeds appends its item, a pop  *)
(* that succeeds removes the oldest item, if there is one.  old is the     *)
(* state the call was made in.  net counts what the calls returned only:   *)
(* the successful pushes less the successful pops.                         *)
(***************************************************************************)
Observe ==
    /\ fifo' = CASE call'.op = "init" /\ ret' = QUEUE_OK -> <<>>
                  [] call'.op = "push" /\ ret' = QUEUE_OK -> Append(fifo, call'.item)
                  [] call'.op = "pop" /\ ret' = QUEUE_OK /\ fifo # <<>> -> Tail(fifo)
                  [] OTHER -> fifo
    /\ inits' = IF call'.op = "init" /\ ret' = QUEUE_OK THEN inits + 1 ELSE inits
    /\ old' = [q |-> q, mem |-> mem, out_item |-> out_item, fifo |-> fifo]
    /\ net' = CASE call'.op = "init" /\ ret' = QUEUE_OK -> 0
                 [] call'.op = "push" /\ ret' = QUEUE_OK -> net + 1
                 [] call'.op = "pop" /\ ret' = QUEUE_OK -> net - 1
                 [] OTHER -> net

(***************************************************************************)
(* run follows a caller that pushes n items into an empty queue and then   *)
(* pops: pushed are the items of its pushes, npop the number of its pops,  *)
(* ok whether every call so far returned QUEUE_OK and every pop wrote the  *)
(* item due.  A push after the first pop starts a new run if the queue is  *)
(* empty and ends the run otherwise.                                       *)
(***************************************************************************)
Delivered == SubSeq(out_item', 1, q.buffer_element_size)

RunAfterPush ==
    IF q.count = 0 /\ run.phase # "fill"
    THEN [phase |-> "fill", pushed |-> <<call'.item>>, npop |-> 0, ok |-> (ret' = QUEUE_OK)]
    ELSE IF run.phase = "fill" /\ Len(run.pushed) <= q.capacity
    THEN [run EXCEPT !.pushed = Append(@, call'.item), !.ok = @ /\ (ret' = QUEUE_OK)]
    ELSE NoRun

RunAfterPop ==
    IF run.phase \in {"fill", "drain"} /\ run.npop < Len(run.pushed)
    THEN [run EXCEPT !.phase = "drain", !.npop = @ + 1,
                     !.ok = @ /\ (ret' = QUEUE_OK) /\ (Delivered = run.pushed[run.npop + 1])]
    ELSE NoRun

ObserveRun ==
    run' = CASE call'.op = "init" /\ ret' = QUEUE_OK -> NoRun
             [] call'.op = "push" -> RunAfterPush
             [] call'.op = "pop" -> RunAfterPop
             [] OTHER -> run

(***************************************************************************)
(* Spec: a caller that makes any call with any arguments, in any order.    *)
(***************************************************************************)
Initialize ==
    /\ \E q_null \in BOOLEAN, buffer \in {NULL} \cup Buffers,
          size \in 0..MaxElemSize, capacity \in 0..MaxCap :
            DoInit(q_null, buffer, size, capacity)
    /\ Observe
    /\ UNCHANGED <<run, init_args, others>>

Push ==
    /\ \E q_null \in BOOLEAN, arg_null \in BOOLEAN, item \in Items(q.buffer_element_size) :
            DoPush(q_null, arg_null, item)
    /\ Observe
    /\ UNCHANGED <<run, init_args, others>>

Pop ==
    /\ \E q_null \in BOOLEAN, arg_null \in BOOLEAN : DoPop(q_null, arg_null)
    /\ Observe
    /\ UNCHANGED <<run, init_args, others>>

IsEmpty ==
    /\ \E q_null \in BOOLEAN : DoIsEmpty(q_null)
    /\ Observe
    /\ UNCHANGED <<run, init_args, others>>

IsFull ==
    /\ \E q_null \in BOOLEAN : DoIsFull(q_null)
    /\ Observe
    /\ UNCHANGED <<run, init_args, others>>

Next == Initialize \/ Push \/ Pop \/ IsEmpty \/ IsFull

Spec == Init /\ [][Next]_vars

(***************************************************************************)
(* SpecRun: a caller that binds the queue with valid arguments and then    *)
(* pushes and pops with valid references, in any order.                    *)
(***************************************************************************)
RunInit ==
    /\ \E buffer \in Buffers, size \in 1..MaxElemSize, capacity \in 1..MaxCap :
            DoInit(FALSE, buffer, size, capacity)
    /\ Observe
    /\ ObserveRun
    /\ UNCHANGED <<init_args, others>>

RunPush ==
    /\ inits > 0
    /\ \E item \in Items(q.buffer_element_size) : DoPush(FALSE, FALSE, item)
    /\ Observe
    /\ ObserveRun
    /\ UNCHANGED <<init_args, others>>

RunPop ==
    /\ inits > 0
    /\ DoPop(FALSE, FALSE)
    /\ Observe
    /\ ObserveRun
    /\ UNCHANGED <<init_args, others>>

NextRun == RunInit \/ RunPush \/ RunPop

SpecRun == Init /\ [][NextRun]_vars

(***************************************************************************)
(* SpecInit: a caller that calls queue_init with any arguments, at any     *)
(* time, and pushes and pops with valid references.                        *)
(***************************************************************************)
ValidPush ==
    /\ \E item \in Items(q.buffer_element_size) : DoPush(FALSE, FALSE, item)
    /\ Observe
    /\ init_args' = NoArgs
    /\ UNCHANGED <<run, others>>

ValidPop ==
    /\ DoPop(FALSE, FALSE)
    /\ Observe
    /\ init_args' = NoArgs
    /\ UNCHANGED <<run, others>>

InitWithArgs ==
    /\ \E q_null \in BOOLEAN, buffer \in {NULL} \cup Buffers,
          size \in 0..MaxElemSize, capacity \in 0..MaxCap :
            /\ DoInit(q_null, buffer, size, capacity)
            /\ init_args' = [q_null |-> q_null, buffer |-> buffer,
                             size |-> size, capacity |-> capacity]
    /\ Observe
    /\ UNCHANGED <<run, others>>

NextInit == InitWithArgs \/ ValidPush \/ ValidPop

SpecInit == Init /\ [][NextInit]_vars

(***************************************************************************)
(* SpecBind: a caller that binds and re-binds the queue with valid         *)
(* arguments, the largest element size and capacity included, and pushes   *)
(* and pops with valid references.  The caller's buffers have BufLen       *)
(* bytes: it pushes only while the queue is bound to a geometry they can   *)
(* hold, and pops from a queue bound otherwise only while it is empty.     *)
(*                                                                         *)
(* since follows the caller from a successful init on: pushes is the       *)
(* number of pushes made if nothing but pushes was called, pop whether the *)
(* one call made was a pop, lost the number of items the queue held when   *)
(* it was re-bound.                                                        *)
(***************************************************************************)
Sizes == (1..MaxElemSize) \cup {UINT16_MAX}

Capacities == (1..MaxCap) \cup {UINT16_MAX}

Fits(qs) ==
    /\ qs.buffer_element_size > 0
    /\ qs.capacity <= BufLen \div qs.buffer_element_size

ObserveSince ==
    since' = CASE call'.op = "init" /\ ret' = QUEUE_OK ->
                    [pushes |-> 0, pop |-> FALSE, lost |-> Len(fifo)]
               [] call'.op = "push" /\ since.pushes >= 0 /\ since.pushes <= q.capacity
                                    /\ ~since.pop ->
                    [since EXCEPT !.pushes = @ + 1]
               [] call'.op = "pop" /\ since.pushes = 0 /\ ~since.pop ->
                    [since EXCEPT !.pop = TRUE]
               [] OTHER -> NoSince

BindInit ==
    /\ \E buffer \in Buffers, size \in Sizes, capacity \in Capacities :
            /\ DoInit(FALSE, buffer, size, capacity)
            /\ init_args' = [q_null |-> FALSE, buffer |-> buffer,
                             size |-> size, capacity |-> capacity]
    /\ Observe
    /\ ObserveSince
    /\ UNCHANGED <<run, script, peer, task, streak, wide, copy>>

BindPush ==
    /\ inits > 0
    /\ Fits(q)
    /\ \E item \in Items(q.buffer_element_size) : DoPush(FALSE, FALSE, item)
    /\ Observe
    /\ ObserveSince
    /\ init_args' = NoArgs
    /\ UNCHANGED <<run, script, peer, task, streak, wide, copy>>

BindPop ==
    /\ inits > 0
    /\ Fits(q) \/ q.count = 0
    /\ DoPop(FALSE, FALSE)
    /\ Observe
    /\ ObserveSince
    /\ init_args' = NoArgs
    /\ UNCHANGED <<run, script, peer, task, streak, wide, copy>>

NextBind == BindInit \/ BindPush \/ BindPop

SpecBind == Init /\ [][NextBind]_vars

(***************************************************************************)
(* SpecTrip: a caller that binds the queue with valid arguments and pushes *)
(* elements of every byte content.                                         *)
(***************************************************************************)
AllItems(n) == [1..n -> Bytes]

TripInit ==
    /\ \E buffer \in Buffers, size \in 1..MaxElemSize, capacity \in 1..MaxCap :
            DoInit(FALSE, buffer, size, capacity)
    /\ Observe
    /\ ObserveRun
    /\ UNCHANGED <<init_args, others>>

TripPush ==
    /\ inits > 0
    /\ \E item \in AllItems(q.buffer_element_size) : DoPush(FALSE, FALSE, item)
    /\ Observe
    /\ ObserveRun
    /\ UNCHANGED <<init_args, others>>

TripPop ==
    /\ inits > 0
    /\ DoPop(FALSE, FALSE)
    /\ Observe
    /\ ObserveRun
    /\ UNCHANGED <<init_args, others>>

NextTrip == TripInit \/ TripPush \/ TripPop

SpecTrip == Init /\ [][NextTrip]_vars

(***************************************************************************)
(* SpecScenario: a caller that, after using the queue in any way, declares *)
(* a buffer of three ints and an int to pop into, binds the queue to them  *)
(* and makes the calls of ScenarioCalls in order.  script is the position  *)
(* of the next call to make; 0 before the declarations.                    *)
(*                                                                         *)
(* An int is stored as its bytes, least significant first.                 *)
(***************************************************************************)
Scenario == [capacity |-> 3, size |-> 4]

ScenarioBuffer == Cardinality(Buffers) + 1

Encode(v, n) == [i \in 1..n |-> (v \div (256 ^ (i - 1))) % 256]

RECURSIVE Decode(_)
Decode(b) == IF b = <<>> THEN 0 ELSE b[1] + 256 * Decode(Tail(b))

ScenarioCalls ==
    << [op |-> "init"], [op |-> "is_empty"], [op |-> "is_full"],
       [op |-> "push", value |-> 10], [op |-> "push", value |-> 20],
       [op |-> "push", value |-> 30], [op |-> "is_full"],
       [op |-> "push", value |-> 40],
       [op |-> "pop"], [op |-> "pop"],
       [op |-> "push", value |-> 40],
       [op |-> "pop"], [op |-> "pop"], [op |-> "pop"] >>

ScenarioFree ==
    /\ script = 0
    /\ NextRun

ScenarioSetup ==
    /\ script = 0
    /\ inits < MaxInits
    /\ script' = 1
    /\ mem' = [b \in DOMAIN mem \cup {ScenarioBuffer} |->
                 IF b = ScenarioBuffer
                 THEN [i \in 1..(Scenario.capacity * Scenario.size) |-> 0]
                 ELSE mem[b]]
    /\ out_item' = [i \in 1..Scenario.size |-> 0]
    /\ call' = Called("none", FALSE, FALSE, <<>>)
    /\ UNCHANGED <<q, ret>>
    /\ Observe
    /\ UNCHANGED <<run, init_args, since, peer, task, streak, wide, copy>>

ScenarioStep ==
    /\ script \in 1..Len(ScenarioCalls)
    /\ LET c == ScenarioCalls[script]
       IN CASE c.op = "init" ->
                 DoInit(FALSE, ScenarioBuffer, Scenario.size, Scenario.capacity)
            [] c.op = "push" -> DoPush(FALSE, FALSE, Encode(c.value, Scenario.size))
            [] c.op = "pop" -> DoPop(FALSE, FALSE)
            [] c.op = "is_empty" -> DoIsEmpty(FALSE)
            [] c.op = "is_full" -> DoIsFull(FALSE)
    /\ script' = script + 1
    /\ Observe
    /\ UNCHANGED <<run, init_args, since, peer, task, streak, wide, copy>>

NextScenario == ScenarioFree \/ ScenarioSetup \/ ScenarioStep

SpecScenario == Init /\ [][NextScenario]_vars

(***************************************************************************)
(* The calls statement by statement.  task is the call in progress:        *)
(*   pc      where it stands: "idle" (no call in progress), "offset"       *)
(*           (before lines 78-81 / 105-108), "copy" (in the loop of        *)
(*           copy_bytes), "update" (before the statement that changes      *)
(*           count), "store" (count read into a register, not yet written) *)
(*   op, item        the operation and, for a push, the bytes of the item  *)
(*   offset, size, i the locals of the call and of copy_bytes              *)
(*   reg             the value of count read by the statement of line 84   *)
(*                   or 111                                                *)
(*   copies          byte copies made by the call so far, or by the call   *)
(*                   that returned last                                    *)
(*   steps           steps the call in progress has taken                  *)
(*   addr            the buffer offset of the byte accessed last, or -1    *)
(*   hit             a call made from an interrupt returned QUEUE_OK after *)
(*                   count was read and before it was written back         *)
(*   lost            the call that returned last wrote count back after    *)
(*                   such an interrupt                                     *)
(*   want            what queue_push or queue_pop yields for the state the *)
(*                   call was made in                                      *)
(*   agree           the call that returned last left what want says       *)
(*                                                                         *)
(* A byte access outside the buffer is undefined; the model ignores such a *)
(* write and reads 0.                                                      *)
(***************************************************************************)
Peek(b, k) == IF (k + 1) \in DOMAIN b THEN b[k + 1] ELSE 0

Poke(b, k, v) == IF (k + 1) \in DOMAIN b THEN [b EXCEPT ![k + 1] = v] ELSE b

(***************************************************************************)
(* Faulty variants: the loop copies one byte at most; the index is not     *)
(* wrapped at capacity; count is updated from the value it has when it is  *)
(* written; count is kept in 8 bits.                                       *)
(***************************************************************************)
LoopTestOnce(i, size) == i < size /\ i < 1

NextIndexNoWrap(idx, capacity) == U16(idx + 1)

StoredCountFresh(count, reg, d) == U16(count + d)

StoredCount8(count, reg, d) == (reg + d) % 256

\* line 171: i < size
LoopTest(i, size) == i < size

\* lines 83, 110: (uint16_t)((idx + 1U) % capacity)
NextIndex(idx, capacity) == U16((idx + 1) % capacity)

\* lines 84, 111: the value written to count, from the value reg read from
\* it; count is the value it has when it is written
StoredCount(count, reg, d) == U16(reg + d)

Delta(op) == IF op = "push" THEN 1 ELSE -1

Wanted(op, q_null, arg_null, item) ==
    IF op = "push"
    THEN queue_push(q_null, q, mem, IF arg_null THEN NullPtr ELSE Ptr(item))
    ELSE queue_pop(q_null, q, mem, IF arg_null THEN NullPtr ELSE Ptr(out_item))

Agrees(want, status, op, arg_null) ==
    /\ status = want.ret
    /\ q' = want.q
    /\ IF op = "push"
       THEN mem' = want.mem /\ out_item' = out_item
       ELSE out_item' = (IF arg_null THEN out_item ELSE want.item) /\ mem' = mem

Returns(want, status, op, q_null, arg_null, copies, lost) ==
    /\ task' = [Idle EXCEPT !.copies = copies, !.lost = lost,
                            !.agree = Agrees(want, status, op, arg_null)]
    /\ ret' = status
    /\ call' = Called(op, q_null, arg_null, <<>>)
    /\ net' = IF status = QUEUE_OK THEN net + Delta(op) ELSE net

(***************************************************************************)
(* Faulty variant of the checks: the full check is count > capacity.       *)
(***************************************************************************)
StepCallFullLate(op, q_null, arg_null, item) ==
    /\ task.pc = "idle"
    /\ ~task.lost
    /\ UNCHANGED <<q, mem, out_item, inits>>
    /\ LET want == Wanted(op, q_null, arg_null, item)
       IN IF q_null \/ arg_null
          THEN Returns(want, QUEUE_ERROR, op, q_null, arg_null, 0, FALSE)
          ELSE IF op = "push" /\ q.count > q.capacity
          THEN Returns(want, QUEUE_FULL, op, q_null, arg_null, 0, FALSE)
          ELSE IF op = "pop" /\ q.count = 0
          THEN Returns(want, QUEUE_EMPTY, op, q_null, arg_null, 0, FALSE)
          ELSE /\ task' = [Idle EXCEPT !.pc = "offset", !.op = op, !.item = item,
                                       !.steps = 1, !.want = want]
               /\ UNCHANGED <<ret, call, net>>

\* lines 67-76 and 94-102: the checks
StepCall(op, q_null, arg_null, item) ==
    /\ task.pc = "idle"
    /\ ~task.lost
    /\ UNCHANGED <<q, mem, out_item, inits>>
    /\ LET want == Wanted(op, q_null, arg_null, item)
       IN IF q_null \/ arg_null
          THEN Returns(want, QUEUE_ERROR, op, q_null, arg_null, 0, FALSE)
          ELSE IF op = "push" /\ q.count >= q.capacity
          THEN Returns(want, QUEUE_FULL, op, q_null, arg_null, 0, FALSE)
          ELSE IF op = "pop" /\ q.count = 0
          THEN Returns(want, QUEUE_EMPTY, op, q_null, arg_null, 0, FALSE)
          ELSE /\ task' = [Idle EXCEPT !.pc = "offset", !.op = op, !.item = item,
                                       !.steps = 1, !.want = want]
               /\ UNCHANGED <<ret, call, net>>

\* lines 78-81 and 105-108, lines 169-171: offset, the call of copy_bytes,
\* its null test, i = 0
StepOffset ==
    /\ task.pc = "offset"
    /\ task' = [task EXCEPT
                  !.pc = "copy",
                  !.offset = (IF task.op = "push" THEN q.tail ELSE q.head)
                               * q.buffer_element_size,
                  !.size = IF q.buffer = NULL THEN 0 ELSE q.buffer_element_size,
                  !.i = 0,
                  !.steps = @ + 1]
    /\ UNCHANGED <<q, mem, out_item, inits, ret, call, net>>

\* lines 171-174: one iteration, dst[i] = src[i]
StepCopy ==
    /\ task.pc = "copy"
    /\ LoopTest(task.i, task.size)
    /\ IF task.op = "push"
       THEN /\ mem' = [mem EXCEPT ![q.buffer] =
                         Poke(@, task.offset + task.i, Peek(task.item, task.i))]
            /\ UNCHANGED out_item
       ELSE /\ out_item' = Poke(out_item, task.i,
                                Peek(mem[q.buffer], task.offset + task.i))
            /\ UNCHANGED mem
    /\ task' = [task EXCEPT !.i = U16(task.i + 1),
                            !.copies = @ + 1,
                            !.steps = @ + 1,
                            !.addr = task.offset + task.i]
    /\ UNCHANGED <<q, inits, ret, call, net>>

\* the loop ends; lines 83 and 110: tail or head advances
StepAdvance ==
    /\ task.pc = "copy"
    /\ ~LoopTest(task.i, task.size)
    /\ q' = IF task.op = "push"
            THEN [q EXCEPT !.tail = NextIndex(q.tail, q.capacity)]
            ELSE [q EXCEPT !.head = NextIndex(q.head, q.capacity)]
    /\ task' = [task EXCEPT !.pc = "update", !.steps = @ + 1]
    /\ UNCHANGED <<mem, out_item, inits, ret, call, net>>

\* lines 84 and 111 compiled to a load and a store: the load
StepLoad ==
    /\ task.pc = "update"
    /\ task' = [task EXCEPT !.pc = "store", !.reg = q.count, !.steps = @ + 1]
    /\ UNCHANGED <<q, mem, out_item, inits, ret, call, net>>

\* lines 84 and 111 compiled to a load and a store: the store, and the return
StepStore ==
    /\ task.pc = "store"
    /\ q' = [q EXCEPT !.count = StoredCount(q.count, task.reg, Delta(task.op))]
    /\ UNCHANGED <<mem, out_item, inits>>
    /\ Returns(task.want, QUEUE_OK, task.op, FALSE, FALSE, task.copies, task.hit)

\* lines 84 and 111 compiled to one read-modify-write instruction, and the
\* return
StepUpdate ==
    /\ task.pc = "update"
    /\ q' = [q EXCEPT !.count = StoredCount(q.count, q.count, Delta(task.op))]
    /\ UNCHANGED <<mem, out_item, inits>>
    /\ Returns(task.want, QUEUE_OK, task.op, FALSE, FALSE, task.copies, FALSE)

Quiet == UNCHANGED <<fifo, run, old, init_args, since, script, peer, streak, wide, copy>>

(***************************************************************************)
(* SpecSteps: one context.  A caller makes any call; queue_push and        *)
(* queue_pop run statement by statement, the other operations in one step. *)
(***************************************************************************)
CallInit ==
    /\ task.pc = "idle"
    /\ ~task.lost
    /\ \E buffer \in Buffers, size \in 1..MaxElemSize, capacity \in 1..MaxCap :
            DoInit(FALSE, buffer, size, capacity)
    /\ inits' = inits + 1
    /\ net' = 0
    /\ task' = Idle
    /\ Quiet

CallPush ==
    /\ \E q_null \in BOOLEAN, arg_null \in BOOLEAN, item \in Items(q.buffer_element_size) :
            StepCall("push", q_null, arg_null, item)
    /\ Quiet

CallPop ==
    /\ \E q_null \in BOOLEAN, arg_null \in BOOLEAN :
            StepCall("pop", q_null, arg_null, <<>>)
    /\ Quiet

CallQuery ==
    /\ task.pc = "idle"
    /\ ~task.lost
    /\ \E q_null \in BOOLEAN : DoIsEmpty(q_null) \/ DoIsFull(q_null)
    /\ task' = Idle
    /\ UNCHANGED <<inits, net>>
    /\ Quiet

Offset == StepOffset /\ Quiet

Copy == StepCopy /\ Quiet

Advance == StepAdvance /\ Quiet

Load == StepLoad /\ Quiet

Store == StepStore /\ Quiet

Update == StepUpdate /\ Quiet

Step == Offset \/ Copy \/ Advance \/ Load \/ Store \/ Update

NextSteps == CallInit \/ CallPush \/ CallPop \/ CallQuery \/ Step

SpecSteps == Init /\ [][NextSteps]_vars

(***************************************************************************)
(* SpecIsr: two contexts, one producer and one consumer, no mutual         *)
(* exclusion.  A task calls queue_push or queue_pop with valid references; *)
(* while its call is in progress an interrupt handler can run between any  *)
(* two of its steps and call the other operation, which runs to its end.   *)
(* The run ends with the first call that wrote a stale count back.         *)
(***************************************************************************)
TaskInit == CallInit

TaskPush ==
    /\ inits > 0
    /\ \E item \in Items(q.buffer_element_size) : StepCall("push", FALSE, FALSE, item)
    /\ Quiet

TaskPop ==
    /\ inits > 0
    /\ StepCall("pop", FALSE, FALSE, <<>>)
    /\ Quiet

IsrPop ==
    /\ task.pc # "idle"
    /\ task.op = "push"
    /\ DoPop(FALSE, FALSE)
    /\ net' = IF ret' = QUEUE_OK THEN net - 1 ELSE net
    /\ task' = [task EXCEPT !.hit = @ \/ (task.pc = "store" /\ ret' = QUEUE_OK)]
    /\ UNCHANGED inits
    /\ Quiet

IsrPush ==
    /\ task.pc # "idle"
    /\ task.op = "pop"
    /\ \E item \in Items(q.buffer_element_size) : DoPush(FALSE, FALSE, item)
    /\ net' = IF ret' = QUEUE_OK THEN net + 1 ELSE net
    /\ task' = [task EXCEPT !.hit = @ \/ (task.pc = "store" /\ ret' = QUEUE_OK)]
    /\ UNCHANGED inits
    /\ Quiet

NextIsr == TaskInit \/ TaskPush \/ TaskPop \/ Step \/ IsrPop \/ IsrPush

SpecIsr == Init /\ [][NextIsr]_vars

(***************************************************************************)
(* SpecTwo: a caller with two queues, q bound to buffer OwnBuffer and      *)
(* peer.q bound to buffer PeerBuffer, that calls queue_init (also with     *)
(* capacity 0), queue_push and queue_pop on either, in any order.          *)
(*                                                                         *)
(* peer.fifo is the abstract queue of peer.q, peer.was the peer as it was  *)
(* before the last call, peer.last whether the last call was made on the   *)
(* peer.  inits counts the successful calls of queue_init on either queue. *)
(***************************************************************************)
OwnBuffer == CHOOSE b \in Buffers : \A c \in Buffers : b <= c

PeerBuffer == CHOOSE b \in Buffers : \A c \in Buffers : b >= c

PeerIdle == [peer EXCEPT !.was = [q |-> peer.q, fifo |-> peer.fifo], !.last = FALSE]

PeerCalled(op, item, r) ==
    /\ (op = "init" /\ r.ret = QUEUE_OK) => (inits < MaxInits)
    /\ inits' = IF op = "init" /\ r.ret = QUEUE_OK THEN inits + 1 ELSE inits
    /\ peer' = [q |-> r.q,
                fifo |-> CASE op = "init" /\ r.ret = QUEUE_OK -> <<>>
                           [] op = "push" /\ r.ret = QUEUE_OK -> Append(peer.fifo, item)
                           [] op = "pop" /\ r.ret = QUEUE_OK /\ peer.fifo # <<>> ->
                                Tail(peer.fifo)
                           [] OTHER -> peer.fifo,
                was |-> [q |-> peer.q, fifo |-> peer.fifo],
                last |-> TRUE]
    /\ ret' = r.ret
    /\ call' = Called(op, FALSE, FALSE, item)
    /\ old' = [q |-> q, mem |-> mem, out_item |-> out_item, fifo |-> fifo]
    /\ UNCHANGED <<q, fifo, net>>

OwnInit ==
    /\ \E size \in 1..MaxElemSize, capacity \in 0..MaxCap :
            DoInit(FALSE, OwnBuffer, size, capacity)
    /\ Observe
    /\ peer' = PeerIdle
    /\ UNCHANGED <<run, init_args, since, script, task, streak, wide, copy>>

OwnPush ==
    /\ \E item \in Items(q.buffer_element_size) : DoPush(FALSE, FALSE, item)
    /\ Observe
    /\ peer' = PeerIdle
    /\ UNCHANGED <<run, init_args, since, script, task, streak, wide, copy>>

OwnPop ==
    /\ DoPop(FALSE, FALSE)
    /\ Observe
    /\ peer' = PeerIdle
    /\ UNCHANGED <<run, init_args, since, script, task, streak, wide, copy>>

PeerInit ==
    /\ \E size \in 1..MaxElemSize, capacity \in 0..MaxCap :
            PeerCalled("init", <<>>, queue_init(FALSE, peer.q, PeerBuffer, size, capacity))
    /\ UNCHANGED <<mem, out_item>>
    /\ UNCHANGED <<run, init_args, since, script, task, streak, wide, copy>>

PeerPush ==
    /\ \E item \in Items(peer.q.buffer_element_size) :
            LET r == queue_push(FALSE, peer.q, mem, Ptr(item))
            IN PeerCalled("push", item, r) /\ mem' = r.mem
    /\ UNCHANGED out_item
    /\ UNCHANGED <<run, init_args, since, script, task, streak, wide, copy>>

PeerPop ==
    /\ LET r == queue_pop(FALSE, peer.q, mem, Ptr(out_item))
       IN PeerCalled("pop", <<>>, r) /\ out_item' = r.item
    /\ UNCHANGED mem
    /\ UNCHANGED <<run, init_args, since, script, task, streak, wide, copy>>

NextTwo == OwnInit \/ OwnPush \/ OwnPop \/ PeerInit \/ PeerPush \/ PeerPop

SpecTwo == Init /\ [][NextTwo]_vars

(***************************************************************************)
(* SpecStreak: a caller that binds the queue with valid arguments and      *)
(* pushes and pops with valid references, in any order.  streak follows    *)
(* its consecutive calls of one operation: op is the operation, start the  *)
(* value of count before the first of them, n their number, no longer      *)
(* counted beyond MaxCap + 2.                                              *)
(***************************************************************************)
ObserveStreak ==
    streak' = CASE call'.op = "init" -> NoStreak
                [] call'.op = streak.op ->
                     [streak EXCEPT !.n = IF @ < MaxCap + 2 THEN @ + 1 ELSE @]
                [] OTHER -> [op |-> call'.op, start |-> q.count, n |-> 1]

StreakInit ==
    /\ \E buffer \in Buffers, size \in 1..MaxElemSize, capacity \in 1..MaxCap :
            DoInit(FALSE, buffer, size, capacity)
    /\ Observe
    /\ ObserveStreak
    /\ UNCHANGED <<run, init_args, since, script, peer, task, wide, copy>>

StreakPush ==
    /\ inits > 0
    /\ \E item \in Items(q.buffer_element_size) : DoPush(FALSE, FALSE, item)
    /\ Observe
    /\ ObserveStreak
    /\ UNCHANGED <<run, init_args, since, script, peer, task, wide, copy>>

StreakPop ==
    /\ inits > 0
    /\ DoPop(FALSE, FALSE)
    /\ Observe
    /\ ObserveStreak
    /\ UNCHANGED <<run, init_args, since, script, peer, task, wide, copy>>

NextStreak == StreakInit \/ StreakPush \/ StreakPop

SpecStreak == Init /\ [][NextStreak]_vars

(***************************************************************************)
(* The control structure alone, for a queue of any geometry a uint16_t     *)
(* element size and capacity allow.  A buffer of capacity * element_size   *)
(* bytes has up to 65535 * 65535 of them: the bytes are not represented    *)
(* here, and neither is the copy of lines 81 and 108, which changes        *)
(* nothing but them (C25, C26).                                            *)
(*                                                                         *)
(* A uint32_t value is the pair <<hi, lo>> of its 16-bit halves, standing  *)
(* for hi * 2^16 + lo.  A pair whose hi is 2^16 or more stands for a       *)
(* number that no uint32_t holds.                                          *)
(***************************************************************************)
\* the product of two uint16_t values, as a number
Product(a, b) ==
    LET low == (a % 256) * b
        high == (a \div 256) * b
        sum == low + (high % 256) * 256
    IN <<(high \div 256) + (sum \div Mod16), sum % Mod16>>

\* the sum of a pair and a uint16_t value, as a number
Plus(w, c) == <<w[1] + ((w[2] + c) \div Mod16), (w[2] + c) % Mod16>>

AtMost(v, w) == v[1] < w[1] \/ (v[1] = w[1] /\ v[2] <= w[2])

\* the reduction modulo 2^32 that uint32_t arithmetic makes
U32(w) == <<w[1] % Mod16, w[2]>>

(***************************************************************************)
(* Faulty variant: the offset is computed in 16 bits.                      *)
(***************************************************************************)
SlotOffset16(index, size) == <<0, Product(index, size)[2]>>

\* lines 79, 106: (uint32_t)index * (uint32_t)q->buffer_element_size
SlotOffset(index, size) == U32(Product(index, size))

\* lines 67-87 but line 81.  index and offset are the slot the call
\* addressed, from the value of count it added 1 to, -1 if it did not.
push_control(q_null, item_null, qs) ==
    IF q_null \/ item_null
    THEN [ret |-> QUEUE_ERROR, q |-> qs, index |-> -1, offset |-> <<0, 0>>, from |-> -1]
    ELSE IF qs.count >= qs.capacity
    THEN [ret |-> QUEUE_FULL, q |-> qs, index |-> -1, offset |-> <<0, 0>>, from |-> -1]
    ELSE [ret |-> QUEUE_OK,
          q |-> [qs EXCEPT !.tail = NextIndex(qs.tail, qs.capacity),
                           !.count = StoredCount(qs.count, qs.count, 1)],
          index |-> qs.tail,
          offset |-> SlotOffset(qs.tail, qs.buffer_element_size),
          from |-> qs.count]

\* lines 94-114 but line 108.  from is the value of count the call
\* subtracted 1 from, -1 if it did not.
pop_control(q_null, item_null, qs) ==
    IF q_null \/ item_null
    THEN [ret |-> QUEUE_ERROR, q |-> qs, index |-> -1, offset |-> <<0, 0>>, from |-> -1]
    ELSE IF qs.count = 0
    THEN [ret |-> QUEUE_EMPTY, q |-> qs, index |-> -1, offset |-> <<0, 0>>, from |-> -1]
    ELSE [ret |-> QUEUE_OK,
          q |-> [qs EXCEPT !.head = NextIndex(qs.head, qs.capacity),
                           !.count = StoredCount(qs.count, qs.count, -1)],
          index |-> qs.head,
          offset |-> SlotOffset(qs.head, qs.buffer_element_size),
          from |-> qs.count]

(***************************************************************************)
(* SpecWide: a caller that binds the queue with valid arguments, the       *)
(* largest element size and capacity included, fills it with pushes until  *)
(* a push is refused, drains it with pops until a pop is refused, and      *)
(* binds it again.  wide.phase is where the caller stands, wide.pushes the *)
(* number of pushes made since the queue was bound; index, offset and from *)
(* are those of the last call.                                             *)
(***************************************************************************)
WideCalled(op, r, phase, pushes) ==
    /\ q' = r.q
    /\ ret' = r.ret
    /\ call' = Called(op, FALSE, FALSE, <<>>)
    /\ wide' = [phase |-> phase, pushes |-> pushes,
                index |-> r.index, offset |-> r.offset, from |-> r.from]
    /\ UNCHANGED <<mem, out_item, fifo, run, inits, old, init_args, net,
                   since, script, peer, task, streak, copy>>

WideInit ==
    /\ wide.phase \in {"off", "drained"}
    /\ \E buffer \in Buffers, size \in Sizes, capacity \in Capacities :
            DoInit(FALSE, buffer, size, capacity)
    /\ inits' = inits + 1
    /\ wide' = [NoWide EXCEPT !.phase = "fill"]
    /\ UNCHANGED <<fifo, run, old, init_args, net, since, script, peer, task,
                   streak, copy>>

WidePush ==
    /\ wide.phase = "fill"
    /\ LET r == push_control(FALSE, FALSE, q)
       IN WideCalled("push", r, IF r.ret = QUEUE_OK THEN "fill" ELSE "drain",
                     wide.pushes + 1)

WidePop ==
    /\ wide.phase = "drain"
    /\ LET r == pop_control(FALSE, FALSE, q)
       IN WideCalled("pop", r, IF r.ret = QUEUE_OK THEN "drain" ELSE "drained",
                     wide.pushes)

NextWide == WideInit \/ WidePush \/ WidePop

SpecWide == Init /\ [][NextWide]_vars

(***************************************************************************)
(* SpecZero: one context, a caller that makes any call with any arguments, *)
(* a queue_init that fails included, from the all-zero structure on.       *)
(* queue_push and queue_pop run statement by statement.  copy is the call  *)
(* of copy_bytes that the queue_push or queue_pop in progress, or made     *)
(* last, has made: its pc is "off" if it made none, and dst_null and       *)
(* src_null are what the test of line 169 found.                           *)
(***************************************************************************)
QuietZero == UNCHANGED <<fifo, run, old, init_args, since, script, peer, streak, wide>>

\* lines 81 and 108: the arguments of copy_bytes
Entered ==
    [NoCopy EXCEPT !.pc = "entered",
                   !.dst_null = (task.op = "push" /\ q.buffer = NULL),
                   !.src_null = (task.op = "pop" /\ q.buffer = NULL),
                   !.size = q.buffer_element_size]

ZeroInit ==
    /\ task.pc = "idle"
    /\ ~task.lost
    /\ \E q_null \in BOOLEAN, buffer \in {NULL} \cup Buffers,
          size \in 0..MaxElemSize, capacity \in 0..MaxCap :
            DoInit(q_null, buffer, size, capacity)
    /\ inits' = IF ret' = QUEUE_OK THEN inits + 1 ELSE inits
    /\ net' = IF ret' = QUEUE_OK THEN 0 ELSE net
    /\ task' = Idle
    /\ copy' = NoCopy
    /\ QuietZero

ZeroPush ==
    /\ \E q_null \in BOOLEAN, arg_null \in BOOLEAN, item \in Items(q.buffer_element_size) :
            StepCall("push", q_null, arg_null, item)
    /\ copy' = NoCopy
    /\ QuietZero

ZeroPop ==
    /\ \E q_null \in BOOLEAN, arg_null \in BOOLEAN :
            StepCall("pop", q_null, arg_null, <<>>)
    /\ copy' = NoCopy
    /\ QuietZero

ZeroQuery ==
    /\ task.pc = "idle"
    /\ ~task.lost
    /\ \E q_null \in BOOLEAN : DoIsEmpty(q_null) \/ DoIsFull(q_null)
    /\ task' = Idle
    /\ copy' = NoCopy
    /\ UNCHANGED <<inits, net>>
    /\ QuietZero

ZeroOffset == StepOffset /\ copy' = Entered /\ QuietZero

ZeroCopy == StepCopy /\ UNCHANGED copy /\ QuietZero

ZeroAdvance == StepAdvance /\ UNCHANGED copy /\ QuietZero

ZeroUpdate == StepUpdate /\ UNCHANGED copy /\ QuietZero

NextZero ==
    \/ ZeroInit
    \/ ZeroPush
    \/ ZeroPop
    \/ ZeroQuery
    \/ ZeroOffset
    \/ ZeroCopy
    \/ ZeroAdvance
    \/ ZeroUpdate

SpecZero == Init /\ [][NextZero]_vars

(***************************************************************************)
(* copy_bytes on its own, statement by statement, for any size a uint16_t  *)
(* holds.  An array of bytes is kept as its runs: the sequence of          *)
(* [v |-> byte, n |-> length] of its maximal stretches of equal bytes, in  *)
(* order.  The arrays here have 2^16 bytes, all that a uint16_t indexes.   *)
(* copy is the call:                                                       *)
(*   pc                 "test" (before line 169), "loop" (before the test  *)
(*                      of line 171), "done" (returned)                    *)
(*   dst_null, src_null whether the pointers are null                      *)
(*   dst, src           the arrays behind the pointers; was is dst as it   *)
(*                      was when the call was made                         *)
(*   size, i            the parameter and the loop index                   *)
(*   iters              iterations of the loop made                        *)
(*   top                the highest index read or written, -1 if none      *)
(*   reads, writes      bytes read from src, bytes written to dst          *)
(***************************************************************************)
RECURSIVE Runs(_)
Runs(a) ==
    IF a = <<>> THEN <<>>
    ELSE IF a[1].n = 0 THEN Runs(Tail(a))
    ELSE LET rest == Runs(Tail(a))
         IN IF rest # <<>> /\ rest[1].v = a[1].v
            THEN <<[v |-> a[1].v, n |-> a[1].n + rest[1].n]>> \o Tail(rest)
            ELSE <<a[1]>> \o rest

\* a[k]
RECURSIVE PeekRuns(_, _)
PeekRuns(a, k) ==
    IF a = <<>> THEN 0
    ELSE IF k < a[1].n THEN a[1].v
    ELSE PeekRuns(Tail(a), k - a[1].n)

RECURSIVE Overwrite(_, _, _)
Overwrite(a, k, v) ==
    IF a = <<>> THEN <<>>
    ELSE IF k < a[1].n
    THEN <<[v |-> a[1].v, n |-> k], [v |-> v, n |-> 1],
           [v |-> a[1].v, n |-> a[1].n - k - 1]>> \o Tail(a)
    ELSE <<a[1]>> \o Overwrite(Tail(a), k - a[1].n, v)

\* a[k] = v
PokeRuns(a, k, v) == Runs(Overwrite(a, k, v))

Fill(v) == <<[v |-> v, n |-> Mod16]>>

\* the array that starts with the bytes p and goes on with bytes v
RECURSIVE ArrayOf(_, _, _)
ArrayOf(p, v, k) ==
    IF k = 0 THEN Fill(v) ELSE PokeRuns(ArrayOf(p, v, k - 1), k - 1, p[k])

Sources == {ArrayOf(p, v, MaxElemSize) : p \in AllItems(MaxElemSize), v \in Bytes}

(***************************************************************************)
(* Faulty variants: the loop index is a uint8_t; the source pointer is not *)
(* tested.                                                                 *)
(***************************************************************************)
NextI8(i) == (i + 1) % 256

BothValidDstOnly(dst_null, src_null) == ~dst_null

\* line 171: i = (uint16_t)(i + 1U)
NextI(i) == U16(i + 1)

\* line 169: (dst != NULL) && (src != NULL)
BothValid(dst_null, src_null) == (~dst_null) /\ (~src_null)

OnlyCopy ==
    UNCHANGED <<q, mem, out_item, call, ret, fifo, run, inits, old, init_args, net,
                since, script, peer, task, streak, wide>>

\* a call of copy_bytes
CopyCall ==
    /\ copy.pc = "off"
    /\ \E dst_null \in BOOLEAN, src_null \in BOOLEAN, src \in Sources,
          size \in {0} \cup Sizes :
            copy' = [NoCopy EXCEPT !.pc = "test",
                                   !.dst_null = dst_null, !.src_null = src_null,
                                   !.dst = Fill(0), !.was = Fill(0), !.src = src,
                                   !.size = size]
    /\ OnlyCopy

\* line 169, and i = 0 of line 171
CopyTest ==
    /\ copy.pc = "test"
    /\ copy' = IF BothValid(copy.dst_null, copy.src_null)
               THEN [copy EXCEPT !.pc = "loop", !.i = 0]
               ELSE [copy EXCEPT !.pc = "done"]
    /\ OnlyCopy

\* lines 171-174: the test passes, dst[i] = src[i], i advances
CopyIter ==
    /\ copy.pc = "loop"
    /\ LoopTest(copy.i, copy.size)
    /\ copy.iters < Mod16
    /\ copy' = [copy EXCEPT !.dst = PokeRuns(@, copy.i, PeekRuns(copy.src, copy.i)),
                            !.i = NextI(copy.i),
                            !.iters = @ + 1,
                            !.top = IF copy.i > @ THEN copy.i ELSE @,
                            !.reads = @ + 1,
                            !.writes = @ + 1]
    /\ OnlyCopy

\* line 171: the test fails, the function returns
CopyExit ==
    /\ copy.pc = "loop"
    /\ ~LoopTest(copy.i, copy.size)
    /\ copy' = [copy EXCEPT !.pc = "done"]
    /\ OnlyCopy

NextCopy == CopyCall \/ CopyTest \/ CopyIter \/ CopyExit

(***************************************************************************)
(* SpecCopy: a caller of copy_bytes, as the unit-test build allows, with   *)
(* pointers null or not, sources of every content in their first bytes and *)
(* sizes up to the largest.                                                *)
(***************************************************************************)
SpecCopy == Init /\ [][NextCopy]_vars

(***************************************************************************)
(* Properties.                                                             *)
(***************************************************************************)
ValidCall(c) == (~c.q_null) /\ (~c.arg_null)

\* C1: a caller that pushes n <= capacity items into an empty queue and then
\* pops gets QUEUE_OK from every one of these calls, and the pops write the
\* pushed items in the order they were pushed.
C1_FifoOrder ==
    (run.phase \in {"fill", "drain"} /\ Len(run.pushed) <= q.capacity) => run.ok

C1_Witness ==
    /\ run.phase = "drain"
    /\ run.ok
    /\ q.capacity = MaxCap
    /\ q.buffer_element_size = MaxElemSize
    /\ Len(run.pushed) = q.capacity
    /\ run.npop = Len(run.pushed)
    /\ \E i, j \in 1..Len(run.pushed) : run.pushed[i] # run.pushed[j]

\* C2: the ring refines the abstract bounded sequence fifo: once bound, the
\* count slots from head onwards hold exactly the items accepted and not yet
\* delivered, oldest first, and every pop that returns QUEUE_OK has written
\* the oldest of them, however often head and tail have wrapped.
C2_RingRefinesFifo ==
    /\ inits > 0 => Contents(q, mem) = fifo
    /\ (call.op = "pop" /\ ret = QUEUE_OK)
         => /\ old.fifo # <<>>
            /\ SubSeq(out_item, 1, old.q.buffer_element_size) = Head(old.fifo)
            /\ fifo = Tail(old.fifo)

C2_Witness ==
    /\ call.op = "pop"
    /\ ret = QUEUE_OK
    /\ q.capacity = MaxCap
    /\ q.buffer_element_size = MaxElemSize
    /\ q.head = 0
    /\ q.count > 0
    /\ out_item # fifo[1]

\* C3: once an init has succeeded, 0 <= count <= capacity in every state.
C3_CountInRange ==
    inits > 0 => (0 <= q.count /\ q.count <= q.capacity)

C3_Witness ==
    /\ inits > 0
    /\ call.op = "push"
    /\ ValidCall(call)
    /\ ret = QUEUE_FULL
    /\ q.count = q.capacity
    /\ q.capacity = MaxCap

\* C4: a push with a non-null queue and a non-null item returns QUEUE_FULL
\* exactly when count = capacity before the call, and QUEUE_OK exactly when
\* count < capacity before the call.
C4_PushStatus ==
    (call.op = "push" /\ ValidCall(call))
      => /\ (ret = QUEUE_FULL) <=> (old.q.count = old.q.capacity)
         /\ (ret = QUEUE_OK) <=> (old.q.count < old.q.capacity)

C4_Witness ==
    /\ call.op = "push"
    /\ ValidCall(call)
    /\ ret = QUEUE_OK
    /\ q.capacity = MaxCap
    /\ old.q.count = q.capacity - 1
    /\ q.count = q.capacity

\* C5: a pop with a non-null queue and a non-null output returns QUEUE_EMPTY
\* exactly when count = 0 before the call, and QUEUE_OK exactly when
\* count > 0 before the call.
C5_PopStatus ==
    (call.op = "pop" /\ ValidCall(call))
      => /\ (ret = QUEUE_EMPTY) <=> (old.q.count = 0)
         /\ (ret = QUEUE_OK) <=> (old.q.count > 0)

C5_Witness ==
    /\ call.op = "pop"
    /\ ValidCall(call)
    /\ ret = QUEUE_EMPTY
    /\ inits > 0
    /\ old.q.count = 0
    /\ q.head # 0

\* C6: a push that returns QUEUE_FULL leaves head, tail, count (the whole
\* control structure) and every byte of every buffer as they were, so the
\* ring still holds the items it held, in their order.
C6_FullPushChangesNothing ==
    (call.op = "push" /\ ret = QUEUE_FULL)
      => (q = old.q /\ mem = old.mem /\ Contents(q, mem) = old.fifo)

C6_Witness ==
    /\ call.op = "push"
    /\ ret = QUEUE_FULL
    /\ q.capacity = MaxCap
    /\ q.buffer_element_size = MaxElemSize
    /\ call.item # Slot(q, mem, q.tail)

\* C7: a pop that returns QUEUE_EMPTY leaves the control structure, every
\* buffer byte and every byte of the caller's output object as they were.
C7_EmptyPopChangesNothing ==
    (call.op = "pop" /\ ret = QUEUE_EMPTY)
      => (q = old.q /\ mem = old.mem /\ out_item = old.out_item)

C7_Witness ==
    /\ call.op = "pop"
    /\ ret = QUEUE_EMPTY
    /\ q.capacity > 0
    /\ q.buffer_element_size = MaxElemSize
    /\ out_item # Slot(q, mem, q.head)

\* C8: a push or pop with a null queue reference or a null item reference
\* returns QUEUE_ERROR in every state, a full queue (push) and an empty
\* queue (pop) included, and changes neither the control structure, nor a
\* buffer byte, nor the caller's output object.
C8_NullReferenceIsError ==
    (call.op \in {"push", "pop"} /\ ~ValidCall(call))
      => (ret = QUEUE_ERROR /\ q = old.q /\ mem = old.mem /\ out_item = old.out_item)

C8_Witness ==
    /\ call.op = "push"
    /\ ~call.q_null
    /\ call.arg_null
    /\ ret = QUEUE_ERROR
    /\ q.capacity = MaxCap
    /\ q.count = q.capacity

\* C9: queue_init returns QUEUE_ERROR if and only if the queue reference is
\* null, the buffer is null, the element size is 0 or the capacity is 0, and
\* QUEUE_OK for every other combination of arguments.
C9_InitStatus ==
    call.op = "init"
      => LET bad == \/ init_args.q_null
                    \/ init_args.buffer = NULL
                    \/ init_args.size = 0
                    \/ init_args.capacity = 0
         IN /\ (ret = QUEUE_ERROR) <=> bad
            /\ (ret = QUEUE_OK) <=> ~bad

C9_Witness ==
    /\ call.op = "init"
    /\ ret = QUEUE_ERROR
    /\ ~init_args.q_null
    /\ init_args.buffer # NULL
    /\ init_args.size # 0
    /\ init_args.capacity = 0
    /\ q.count > 0

\* C10: a queue_init that returns QUEUE_ERROR changes no field of the control
\* structure and no buffer byte, so a queue in use keeps its contents, in
\* FIFO order.
C10_FailedInitChangesNothing ==
    (call.op = "init" /\ ret = QUEUE_ERROR)
      => (q = old.q /\ mem = old.mem /\ fifo = old.fifo /\ Contents(q, mem) = old.fifo)

C10_Witness ==
    /\ call.op = "init"
    /\ ~call.q_null
    /\ ret = QUEUE_ERROR
    /\ q.capacity = MaxCap
    /\ q.count = q.capacity
    /\ q.head # 0

\* C11: a queue_init with a non-null queue, a non-null buffer, an element
\* size in 1..65535 and a capacity in 1..65535 returns QUEUE_OK and leaves
\* the control structure with exactly the given buffer, element size and
\* capacity and with head = tail = count = 0, so that queue_is_empty is true
\* and queue_is_full is false.
C11_InitBindsAndResets ==
    call.op = "init"
      => /\ ret = QUEUE_OK
         /\ q = [buffer |-> init_args.buffer,
                 buffer_element_size |-> init_args.size,
                 capacity |-> init_args.capacity,
                 head |-> 0, tail |-> 0, count |-> 0]
         /\ queue_is_empty(FALSE, q)
         /\ ~queue_is_full(FALSE, q)

C11_Witness ==
    /\ call.op = "init"
    /\ ret = QUEUE_OK
    /\ init_args.capacity = UINT16_MAX
    /\ init_args.size = UINT16_MAX
    /\ q.capacity = UINT16_MAX
    /\ old.q.count > 0

\* C12: a queue_init that succeeds on a queue in any state resets head, tail
\* and count to 0 and binds the new buffer, element size and capacity; what
\* the queue held is gone: a pop made next returns QUEUE_EMPTY, and of the
\* pushes made next exactly the first capacity (the new one) return QUEUE_OK
\* and the one after them returns QUEUE_FULL.
C12_ReinitResets ==
    /\ (call.op = "init" /\ ret = QUEUE_OK)
         => /\ q.head = 0 /\ q.tail = 0 /\ q.count = 0
            /\ q.buffer = init_args.buffer
            /\ q.buffer_element_size = init_args.size
            /\ q.capacity = init_args.capacity
            /\ fifo = <<>>
    /\ since.pop
         => (call.op = "pop" /\ ret = QUEUE_EMPTY /\ out_item = old.out_item)
    /\ (since.pushes >= 1 /\ ~since.pop)
         => /\ call.op = "push"
            /\ (since.pushes <= q.capacity) => (ret = QUEUE_OK)
            /\ (since.pushes = q.capacity + 1) => (ret = QUEUE_FULL)

C12_Witness ==
    /\ since.lost = MaxCap
    /\ since.pushes = q.capacity + 1
    /\ q.capacity < MaxCap
    /\ call.op = "push"
    /\ ret = QUEUE_FULL

\* C13: on a non-null queue, in every reachable state, queue_is_empty
\* returns true if and only if count = 0, which is the case if and only if as
\* many pops as pushes have returned QUEUE_OK since the last successful init,
\* and queue_is_full returns true if and only if count = capacity.
C13_QueryResults ==
    /\ (call.op = "is_empty" /\ ~call.q_null)
         => /\ ret <=> (old.q.count = 0)
            /\ ret <=> (net = 0)
    /\ (call.op = "is_full" /\ ~call.q_null)
         => (ret <=> (old.q.count = old.q.capacity))

C13_Witness ==
    /\ call.op = "is_empty"
    /\ ~call.q_null
    /\ ret = FALSE
    /\ q.capacity = MaxCap
    /\ q.head = q.tail
    /\ q.head # 0
    /\ net = MaxCap

\* C14: with a null queue reference queue_is_empty returns true and
\* queue_is_full returns false, in every state, and the control structure,
\* the buffers and the caller's output object are as they were.
C14_NullQueries ==
    /\ (call.op = "is_empty" /\ call.q_null) => (ret = TRUE)
    /\ (call.op = "is_full" /\ call.q_null) => (ret = FALSE)
    /\ (call.op \in {"is_empty", "is_full"} /\ call.q_null)
         => (q = old.q /\ mem = old.mem /\ out_item = old.out_item)

C14_Witness ==
    /\ call.op = "is_full"
    /\ call.q_null
    /\ ret = FALSE
    /\ q.capacity = MaxCap
    /\ q.count = q.capacity

\* C15: round trip.  For every element size and every element x of that
\* size, a push of x into an empty queue followed by a pop writes to the
\* caller's output object exactly the bytes of x, byte for byte, no byte
\* beyond them, and leaves the queue empty.
C15_RoundTrip ==
    (run.phase = "drain" /\ Len(run.pushed) = 1 /\ run.npop = 1)
      => /\ call.op = "pop"
         /\ ret = QUEUE_OK
         /\ SubSeq(out_item, 1, q.buffer_element_size) = run.pushed[1]
         /\ SubSeq(out_item, q.buffer_element_size + 1, Len(out_item))
              = SubSeq(old.out_item, q.buffer_element_size + 1, Len(out_item))
         /\ q.count = 0
         /\ queue_is_empty(FALSE, q)

C15_Witness ==
    /\ run.phase = "drain"
    /\ Len(run.pushed) = 1
    /\ run.npop = 1
    /\ q.buffer_element_size = 1
    /\ q.head # 0
    /\ out_item[1] # old.out_item[1]
    /\ out_item[2] # out_item[1]

\* C16: the scenario with capacity 3.  After queue_init, queue_is_empty is
\* true and queue_is_full is false; the pushes of 10, 20 and 30 return
\* QUEUE_OK and queue_is_full is then true; a 4th push returns QUEUE_FULL;
\* two pops return QUEUE_OK and write 10, then 20, and count is then 1; the
\* push of 40 returns QUEUE_OK, written to slot 0, tail having wrapped; of
\* three more pops the first two return QUEUE_OK and write 30, then 40, and
\* the third returns QUEUE_EMPTY.
C16_Returned ==
    << QUEUE_OK, TRUE, FALSE, QUEUE_OK, QUEUE_OK, QUEUE_OK, TRUE, QUEUE_FULL,
       QUEUE_OK, QUEUE_OK, QUEUE_OK, QUEUE_OK, QUEUE_OK, QUEUE_EMPTY >>

C16_ScenarioTrace ==
    script >= 2
      => LET k == script - 1
         IN /\ ret = C16_Returned[k]
            /\ (k = 7) => (q.count = 3)
            /\ (k = 9) => (Decode(out_item) = 10)
            /\ (k = 10) => (Decode(out_item) = 20 /\ q.count = 1)
            /\ (k = 11) => (old.q.tail = 0 /\ Decode(Slot(q, mem, 0)) = 40)
            /\ (k = 12) => (Decode(out_item) = 30)
            /\ (k = 13) => (Decode(out_item) = 40)
            /\ (k = 14) => (out_item = old.out_item)

C16_Witness ==
    /\ script = Len(ScenarioCalls) + 1
    /\ call.op = "pop"
    /\ ret = QUEUE_EMPTY
    /\ Decode(out_item) = 40
    /\ q.capacity = 3
    /\ q.head = 1
    /\ q.tail = 1

\* C17: no interrupt safety, even with one producer and one consumer.  If a
\* call of the other operation, made from an interrupt, returns QUEUE_OK
\* between the read of count and its write-back by a queue_push or queue_pop
\* in progress, then after that call count differs from the number of
\* elements stored and tail differs from (head + count) mod capacity; as long
\* as no call wrote a stale count back, and so whenever every call runs
\* alone, count is the number of elements stored and
\* tail = (head + count) mod capacity between calls.
C17_NoInterruptSafety ==
    /\ task.lost
         => /\ task.pc = "idle"
            /\ q.count # net
            /\ q.tail # (q.head + q.count) % q.capacity
    /\ (task.pc = "idle" /\ ~task.lost /\ inits > 0)
         => /\ q.count = net
            /\ q.tail = (q.head + q.count) % q.capacity

C17_Witness ==
    /\ task.lost
    /\ call.op = "push"
    /\ q.count = q.capacity
    /\ net = q.capacity - 1
    /\ q.tail # q.head

\* C18: every operation ends without waiting or retrying, and its work is set
\* by the element size alone: a call in progress can always take its next
\* step and has taken at most element_size + 4 of them; a queue_push or
\* queue_pop that returns QUEUE_OK has made exactly element_size byte copies,
\* whatever capacity, head, tail and count are; queue_init, queue_is_empty,
\* queue_is_full and every queue_push or queue_pop that returns another
\* status have made none.
C18_WorkIsElementSize ==
    /\ (task.pc = "idle" /\ call.op \in {"push", "pop"})
         => (task.copies = IF ret = QUEUE_OK THEN q.buffer_element_size ELSE 0)
    /\ (task.pc = "idle" /\ call.op \in {"init", "is_empty", "is_full"})
         => (task.copies = 0)
    /\ (task.pc # "idle")
         => /\ ENABLED Step
            /\ task.steps <= q.buffer_element_size + 4
            /\ task.copies <= q.buffer_element_size

C18_Witness ==
    /\ task.pc = "idle"
    /\ call.op = "pop"
    /\ ret = QUEUE_OK
    /\ task.copies = MaxElemSize
    /\ q.capacity = MaxCap
    /\ q.head = 0
    /\ q.count > 0

\* C19: no global state.  With two queues bound to different buffers, a call
\* on one (queue_init, queue_push, queue_pop, whatever it returns) leaves
\* every field of the other and every byte of the other's buffer as they
\* were, and each queue gets the results it would get alone: once bound, it
\* holds exactly its own accepted and undelivered items, oldest first, a push
\* on it returns QUEUE_FULL exactly when it holds capacity items, and a pop
\* on it returns QUEUE_EMPTY exactly when it holds none and otherwise writes
\* its oldest item.
C19_Bound(qs) == qs.buffer # NULL

C19_Alone(qs, f, before) ==
    /\ C19_Bound(qs) => (Contents(qs, mem) = f)
    /\ (call.op = "push" /\ C19_Bound(before.q))
         => /\ (ret = QUEUE_FULL) <=> (Len(before.fifo) = before.q.capacity)
            /\ (ret = QUEUE_OK) <=> (Len(before.fifo) < before.q.capacity)
    /\ (call.op = "pop" /\ C19_Bound(before.q))
         => /\ (ret = QUEUE_EMPTY) <=> (before.fifo = <<>>)
            /\ (ret = QUEUE_OK)
                 => /\ before.fifo # <<>>
                    /\ SubSeq(out_item, 1, before.q.buffer_element_size)
                         = Head(before.fifo)

C19_NoGlobalState ==
    /\ C19_Bound(q) => (Contents(q, mem) = fifo)
    /\ C19_Bound(peer.q) => (Contents(peer.q, mem) = peer.fifo)
    /\ (call.op # "none" /\ peer.last)
         => /\ q = old.q
            /\ mem[OwnBuffer] = old.mem[OwnBuffer]
            /\ fifo = old.fifo
            /\ C19_Alone(peer.q, peer.fifo, peer.was)
    /\ (call.op # "none" /\ ~peer.last)
         => /\ peer.q = peer.was.q
            /\ mem[PeerBuffer] = old.mem[PeerBuffer]
            /\ peer.fifo = peer.was.fifo
            /\ C19_Alone(q, fifo, [q |-> old.q, fifo |-> old.fifo])

C19_Witness ==
    /\ peer.last
    /\ call.op = "push"
    /\ ret = QUEUE_OK
    /\ peer.q.capacity = MaxCap
    /\ peer.q.count = MaxCap
    /\ peer.q.head # 0
    /\ q.capacity = MaxCap
    /\ q.count = MaxCap
    /\ q.head # 0
    /\ q.buffer_element_size # peer.q.buffer_element_size
    /\ mem[OwnBuffer] # mem[PeerBuffer]

\* C20: every byte of the backing buffer that queue_push writes or queue_pop
\* reads lies at an offset in [0, element_size * capacity): no byte at or
\* beyond element_size * capacity is touched.
C20_AccessInBounds ==
    /\ (task.addr # -1)
         => (0 <= task.addr /\ task.addr < q.buffer_element_size * q.capacity)
    /\ (task.pc = "copy" /\ LoopTest(task.i, task.size))
         => (task.offset + task.i < q.buffer_element_size * q.capacity)

C20_Witness ==
    /\ task.op = "pop"
    /\ task.addr = q.buffer_element_size * q.capacity - 1
    /\ q.buffer_element_size = MaxElemSize
    /\ q.capacity = MaxCap

\* C21: the buffer, the element size and the capacity a queue is bound to are
\* changed by a successful queue_init only: every queue_push, queue_pop,
\* queue_is_empty, queue_is_full and every queue_init that returns
\* QUEUE_ERROR leaves the three fields as they were.
C21_Binding(qs) == <<qs.buffer, qs.buffer_element_size, qs.capacity>>

C21_BindingChangedByInitOnly ==
    \/ call.op = "none"
    \/ (call.op = "init" /\ ret = QUEUE_OK)
    \/ C21_Binding(q) = C21_Binding(old.q)

C21_Witness ==
    /\ call.op = "push"
    /\ ret = QUEUE_OK
    /\ q.buffer_element_size = MaxElemSize
    /\ q.capacity = MaxCap
    /\ q.count = MaxCap
    /\ q.tail = 0
    /\ old.q.tail # 0

\* C22: in every state after a successful queue_init, head < capacity and
\* tail < capacity.
C22_IndicesBelowCapacity ==
    inits > 0 => (q.head < q.capacity /\ q.tail < q.capacity)

C22_Witness ==
    /\ inits > 0
    /\ q.capacity = MaxCap
    /\ q.head = q.capacity - 1
    /\ q.tail = q.capacity - 1
    /\ q.count = q.capacity

\* C23: in every state after a successful queue_init,
\* tail = (head + count) mod capacity.
C23_TailFollowsHeadAndCount ==
    inits > 0 => (q.tail = (q.head + q.count) % q.capacity)

C23_Witness ==
    /\ inits > 0
    /\ q.capacity = MaxCap
    /\ q.head = q.capacity - 1
    /\ q.count = q.capacity - 1
    /\ q.head + q.count >= q.capacity
    /\ call.op = "pop"
    /\ ret = QUEUE_OK

\* C24: in every state after a successful queue_init, head = tail if and only
\* if count = 0 or count = capacity: when the indices coincide, count alone
\* tells the empty queue from the full one.
C24_IndicesCoincide ==
    inits > 0 => ((q.head = q.tail) <=> (q.count = 0 \/ q.count = q.capacity))

C24_Witness ==
    /\ inits > 0
    /\ q.capacity = MaxCap
    /\ q.head = q.tail
    /\ q.head # 0
    /\ q.count = q.capacity
    /\ call.op = "push"
    /\ ret = QUEUE_OK

\* C25: a queue_push that returns QUEUE_OK has written the element_size bytes
\* of the item into the slot at the tail index of before the call, has set
\* tail to (tail + 1) mod capacity and count to count + 1, and has left head
\* and every byte outside that slot, in every buffer, as they were.
C25_InSlot(qs, idx, k) ==
    /\ idx * qs.buffer_element_size < k
    /\ k <= (idx + 1) * qs.buffer_element_size

C25_PushFrame ==
    (call.op = "push" /\ ret = QUEUE_OK)
      => /\ Slot(old.q, mem, old.q.tail) = call.item
         /\ Len(call.item) = old.q.buffer_element_size
         /\ q.tail = (old.q.tail + 1) % old.q.capacity
         /\ q.count = old.q.count + 1
         /\ q.head = old.q.head
         /\ \A b \in DOMAIN mem : \A k \in 1..Len(mem[b]) :
                (b # old.q.buffer \/ ~C25_InSlot(old.q, old.q.tail, k))
                  => (mem[b][k] = old.mem[b][k])

C25_Witness ==
    /\ call.op = "push"
    /\ ret = QUEUE_OK
    /\ q.capacity = MaxCap
    /\ q.buffer_element_size = 1
    /\ old.q.tail = 0
    /\ old.q.count > 0
    /\ mem # old.mem
    /\ \E k \in 2..Len(mem[q.buffer]) : mem[q.buffer][k] # 0

\* C26: a queue_pop that returns QUEUE_OK has copied the element_size bytes of
\* the slot at the head index of before the call to the caller's output
\* object, has set head to (head + 1) mod capacity and count to count - 1,
\* and has left tail and every byte of every buffer, the slot just popped
\* included, as they were.
C26_PopFrame ==
    (call.op = "pop" /\ ret = QUEUE_OK)
      => /\ SubSeq(out_item, 1, old.q.buffer_element_size)
              = Slot(old.q, old.mem, old.q.head)
         /\ q.head = (old.q.head + 1) % old.q.capacity
         /\ q.count = old.q.count - 1
         /\ q.tail = old.q.tail
         /\ mem = old.mem
         /\ Slot(old.q, mem, old.q.head) = Head(old.fifo)

C26_Witness ==
    /\ call.op = "pop"
    /\ ret = QUEUE_OK
    /\ q.capacity = MaxCap
    /\ q.buffer_element_size = MaxElemSize
    /\ old.q.head = q.capacity - 1
    /\ q.head = 0
    /\ q.count > 0
    /\ out_item # old.out_item
    /\ Slot(q, mem, q.head) # out_item

\* C27: a queue_push never overwrites an element not yet popped: in every
\* state with count < capacity the slot index tail is none of the count live
\* slot indices head, head + 1, ..., head + count - 1 (mod capacity), and
\* after a queue_push that returned QUEUE_OK the elements the queue held
\* before are still there, in their order.
C27_Live(qs) == {(qs.head + j) % qs.capacity : j \in 0..(qs.count - 1)}

C27_NoOverwrite ==
    /\ (inits > 0 /\ q.count < q.capacity) => (q.tail \notin C27_Live(q))
    /\ (call.op = "push" /\ ret = QUEUE_OK)
         => /\ old.q.tail \notin C27_Live(old.q)
            /\ \A k \in 1..Len(old.fifo) : Contents(q, mem)[k] = old.fifo[k]

C27_Witness ==
    /\ call.op = "push"
    /\ ret = QUEUE_OK
    /\ q.capacity = MaxCap
    /\ q.count = MaxCap
    /\ old.q.tail < old.q.head
    /\ call.item # old.fifo[1]

\* C28: in every state count is the number of queue_push calls that returned
\* QUEUE_OK less the number of queue_pop calls that returned QUEUE_OK since
\* the last successful queue_init; calls that returned QUEUE_FULL,
\* QUEUE_EMPTY or QUEUE_ERROR do not count.
C28_CountIsPushesLessPops == q.count = net

C28_Witness ==
    /\ call.op = "push"
    /\ ret = QUEUE_FULL
    /\ net = MaxCap
    /\ inits = MaxInits
    /\ q.head # 0

\* C29: fill-up.  From a state with count = k, of consecutive queue_push calls
\* with valid arguments exactly the first capacity - k return QUEUE_OK, each
\* raising count by one; after them queue_is_full is true, queue_is_empty is
\* false, count = capacity, and every further queue_push returns QUEUE_FULL.
C29_FillUp ==
    streak.op = "push"
      => LET room == q.capacity - streak.start
         IN /\ call.op = "push"
            /\ (ret = QUEUE_OK) <=> (streak.n <= room)
            /\ (ret = QUEUE_FULL) <=> (streak.n > room)
            /\ (streak.n <= room) => (q.count = streak.start + streak.n)
            /\ (streak.n >= room)
                 => /\ q.count = q.capacity
                    /\ queue_is_full(FALSE, q)
                    /\ ~queue_is_empty(FALSE, q)

C29_Witness ==
    /\ streak.op = "push"
    /\ q.capacity = MaxCap
    /\ streak.start = 0
    /\ streak.n = MaxCap + 2
    /\ ret = QUEUE_FULL
    /\ q.head # 0

\* C30: drain.  From a state with count = k, of consecutive queue_pop calls
\* with valid arguments exactly the first k return QUEUE_OK, each lowering
\* count by one; after them queue_is_empty is true, queue_is_full is false,
\* and every further queue_pop returns QUEUE_EMPTY.
C30_Drain ==
    streak.op = "pop"
      => /\ call.op = "pop"
         /\ (ret = QUEUE_OK) <=> (streak.n <= streak.start)
         /\ (ret = QUEUE_EMPTY) <=> (streak.n > streak.start)
         /\ (streak.n <= streak.start) => (q.count = streak.start - streak.n)
         /\ (streak.n >= streak.start)
              => /\ q.count = 0
                 /\ queue_is_empty(FALSE, q)
                 /\ ~queue_is_full(FALSE, q)

C30_Witness ==
    /\ streak.op = "pop"
    /\ q.capacity = MaxCap
    /\ streak.start = MaxCap
    /\ streak.n = MaxCap + 2
    /\ ret = QUEUE_EMPTY
    /\ q.head # 0

\* C31: the slot offset index * element_size that queue_push (index = tail) and
\* queue_pop (index = head) compute in uint32_t arithmetic is the product as
\* a number, nothing being lost modulo 2^32, and
\* offset + element_size <= capacity * element_size < 2^32.
C31_OffsetDoesNotWrap ==
    (call.op \in {"push", "pop"} /\ ret = QUEUE_OK)
      => LET size == q.buffer_element_size
             room == Product(q.capacity, size)
         IN /\ wide.index < q.capacity
            /\ q.capacity <= UINT16_MAX
            /\ size <= UINT16_MAX
            /\ wide.offset = Product(wide.index, size)
            /\ AtMost(Plus(wide.offset, size), room)
            /\ room[1] < Mod16

C31_Witness ==
    /\ call.op = "pop"
    /\ ret = QUEUE_OK
    /\ q.capacity = UINT16_MAX
    /\ q.buffer_element_size = UINT16_MAX
    /\ wide.index = UINT16_MAX - 1
    /\ wide.offset = <<UINT16_MAX - 2, 2>>
    /\ Plus(wide.offset, q.buffer_element_size) = Product(q.capacity, q.buffer_element_size)

\* C32: the 16-bit bookkeeping neither truncates nor wraps.  With capacity
\* 65535, count is the number of pushes made up to 65535 of them, when
\* queue_is_full is true and tail, advanced from 65534, is 0; the push after
\* them returns QUEUE_FULL and leaves count at 65535; and count - 1 is only
\* computed from a count above 0.
C32_NoTruncation ==
    /\ (q.capacity = UINT16_MAX /\ wide.phase = "fill")
         => /\ q.count = wide.pushes
            /\ q.tail = wide.pushes % UINT16_MAX
            /\ queue_is_full(FALSE, q) <=> (wide.pushes = UINT16_MAX)
    /\ (q.capacity = UINT16_MAX /\ wide.phase = "drain" /\ call.op = "push")
         => /\ ret = QUEUE_FULL
            /\ wide.pushes = UINT16_MAX + 1
            /\ q.count = UINT16_MAX
            /\ q.tail = 0
    /\ (call.op = "pop" /\ wide.from # -1)
         => /\ wide.from > 0
            /\ q.count = wide.from - 1

C32_Witness ==
    /\ q.capacity = UINT16_MAX
    /\ wide.phase = "fill"
    /\ call.op = "push"
    /\ ret = QUEUE_OK
    /\ wide.index = UINT16_MAX - 1
    /\ q.tail = 0
    /\ q.count = UINT16_MAX

\* C33, as claimed: on an initialized queue, a queue_push with a null item
\* takes the src == NULL branch of copy_bytes, and a queue_pop with a null item
\* its dst == NULL branch.
C33_NullItemReachesCopyBytes ==
    (inits > 0 /\ task.pc = "idle" /\ call.op \in {"push", "pop"}
               /\ ~call.q_null /\ call.arg_null)
      => /\ copy.pc = "entered"
         /\ (call.op = "push") => copy.src_null
         /\ (call.op = "pop") => copy.dst_null

\* C34: no division by zero.  From the all-zero structure on, whether a
\* queue_init has succeeded or not, capacity is above 0 whenever queue_push or
\* queue_pop is about to advance its index by (index + 1) % capacity; while no
\* queue_init has succeeded no call gets past its checks.
C34_NoDivisionByZero ==
    /\ (task.pc = "copy" /\ ~LoopTest(task.i, task.size)) => q.capacity > 0
    /\ (inits = 0) => (task.pc = "idle")

C34_Witness ==
    /\ task.pc = "copy"
    /\ ~LoopTest(task.i, task.size)
    /\ task.op = "pop"
    /\ q.capacity = MaxCap
    /\ q.head = MaxCap - 1
    /\ inits = MaxInits

\* C35: on the all-zero structure, as long as no queue_init has succeeded
\* (failed ones included), every queue_push with a non-null item returns
\* QUEUE_FULL and every queue_pop with a non-null output QUEUE_EMPTY, the
\* structure, the buffers and the output object are left as they were, and
\* queue_is_empty and queue_is_full both return true.
C35_UnboundQueue ==
    (inits = 0)
      => /\ q = ZeroQueue
         /\ mem = ZeroMem
         /\ out_item = ZeroItem
         /\ (call.op = "push" /\ ValidCall(call)) => (ret = QUEUE_FULL)
         /\ (call.op = "pop" /\ ValidCall(call)) => (ret = QUEUE_EMPTY)
         /\ (call.op \in {"is_empty", "is_full"} /\ ~call.q_null) => (ret = TRUE)
         /\ queue_is_empty(FALSE, q)
         /\ queue_is_full(FALSE, q)

C35_Witness ==
    /\ inits = 0
    /\ call.op = "pop"
    /\ ValidCall(call)
    /\ ret = QUEUE_EMPTY
    /\ old.q = ZeroQueue

\* C36: copy_bytes terminates for every size in 0..65535: its 16-bit loop
\* index counts the iterations without wrapping, there are at most size of
\* them, and after size of them the loop test fails.  Called with non-null
\* dst and src it returns with dst[i] = src[i] for every i < size, having read
\* and written no byte at an index of size or more, and having copied
\* nothing when size is 0.
C36_Index ==
    /\ copy.i = copy.iters
    /\ copy.iters <= copy.size
    /\ (copy.pc = "loop" /\ copy.iters = copy.size) => ~LoopTest(copy.i, copy.size)
    /\ copy.top < copy.size
    /\ copy.reads = copy.iters
    /\ copy.writes = copy.iters

C36_Copied ==
    /\ copy.i = copy.size
    /\ \A k \in 0..(Mod16 - 1) :
          PeekRuns(copy.dst, k) = IF k < copy.size THEN PeekRuns(copy.src, k)
                                                  ELSE PeekRuns(copy.was, k)
    /\ (copy.size = 0) => (copy.dst = copy.was /\ copy.writes = 0 /\ copy.reads = 0)

C36_CopyBytesTerminates ==
    /\ (~copy.dst_null /\ ~copy.src_null) => C36_Index
    /\ (copy.pc = "done" /\ ~copy.dst_null /\ ~copy.src_null) => C36_Copied

C36_Witness ==
    /\ copy.pc = "done"
    /\ ~copy.dst_null
    /\ ~copy.src_null
    /\ copy.size = UINT16_MAX
    /\ copy.iters = UINT16_MAX
    /\ copy.dst # copy.was
    /\ Len(copy.dst) > 2

\* C37: copy_bytes called with a null dst, a null src or both reads nothing
\* and writes nothing, whatever the size, and returns.
C37_NullIsNoOp ==
    (copy.pc \in {"loop", "done"} /\ (copy.dst_null \/ copy.src_null))
      => /\ copy.pc = "done"
         /\ copy.dst = copy.was
         /\ copy.reads = 0
         /\ copy.writes = 0
         /\ copy.top = -1

C37_Witness ==
    /\ copy.pc = "done"
    /\ copy.dst_null
    /\ ~copy.src_null
    /\ copy.size = UINT16_MAX
    /\ copy.writes = 0

\* The calls run statement by statement, alone, leave what queue_push and
\* queue_pop yield.
StepsAgree == task.agree

=============================================================================
